---- MODULE Spec2Model ----
(***************************************************************************)
(* A model of paicorelib: the coordinate arithmetic of coordinate.py, the  *)
(* multicast addressing functions of routing_defs.py and the frame         *)
(* encoders of framelib.                                                   *)
(*                                                                         *)
(* The library is a set of value types and functions.  Each specification  *)
(* below draws the operands of one group of operations in its initial      *)
(* state and applies the operations as the code computes them; an          *)
(* operation that raises is recorded as an outcome that carries no value.  *)
(***************************************************************************)
EXTENDS Integers, Sequences, FiniteSets, TLC

VARIABLES
    COORD_Y_PRIORITY,   \* HwParams.COORD_Y_PRIORITY, the axis-priority flag
    pc,                 \* position of the caller in the scenario
    coord,              \* a Coord object: [x, y]
    offset,             \* a CoordOffset object: [delta_x, delta_y]
    addr,               \* the last value of Coord.address
    decoded,            \* the outcome of Coord.from_addr
    sum,                \* the outcome of coord + offset
    diff,               \* the outcome of coord - offset
    back,               \* the outcome of (coord + offset) - offset
    last,               \* the last in-place operation and how it ended
    nops,               \* the number of in-place operations so far
    coords,             \* the sequence of Coords given to get_replication_id
    rid,                \* a ReplicationId: [x, y]
    ridOut,             \* the outcome of get_replication_id
    cores,              \* the set returned by get_multicast_cores
    args,               \* the arguments of the frame call under study
    frame               \* the outcome of that call: words, warnings or an exception

addrVars == <<addr, decoded>>
arithVars == <<sum, diff, back>>
inplaceVars == <<last, nops>>
routeVars == <<coords, rid, ridOut, cores>>
frameVars == <<args, frame>>
vars == <<COORD_Y_PRIORITY, pc, coord, offset, addr, decoded, sum, diff, back,
          last, nops, coords, rid, ridOut, cores, args, frame>>

----------------------------------------------------------------------------
(* HwParams *)

N_BIT_COORD_ADDR == 5
\* coordinate.py reads the shift widths as HwParams.N_BIT_CORE_X and
\* HwParams.N_BIT_CORE_Y; hw_defs.py sets the one width N_BIT_COORD_ADDR
\* from which CORE_X_MAX and CORE_Y_MAX are derived.
N_BIT_CORE_X == N_BIT_COORD_ADDR
N_BIT_CORE_Y == N_BIT_COORD_ADDR

(* Python integer operators on non-negative integers *)

Pow2(n) == 2 ^ n
ShiftL(a, n) == a * Pow2(n)
ShiftR(a, n) == a \div Pow2(n)

RECURSIVE BitAnd(_, _)
BitAnd(a, b) ==
    IF a = 0 \/ b = 0 THEN 0
    ELSE (IF a % 2 = 1 /\ b % 2 = 1 THEN 1 ELSE 0) + 2 * BitAnd(a \div 2, b \div 2)

RECURSIVE BitOr(_, _)
BitOr(a, b) ==
    IF a = 0 THEN b
    ELSE IF b = 0 THEN a
    ELSE (IF a % 2 = 1 \/ b % 2 = 1 THEN 1 ELSE 0) + 2 * BitOr(a \div 2, b \div 2)

RECURSIVE BitXor(_, _)
BitXor(a, b) ==
    IF a = 0 THEN b
    ELSE IF b = 0 THEN a
    ELSE (IF a % 2 # b % 2 THEN 1 ELSE 0) + 2 * BitXor(a \div 2, b \div 2)

CORE_X_MIN == 0
CORE_X_MAX == ShiftL(1, N_BIT_COORD_ADDR) - 1
CORE_Y_MIN == 0
CORE_Y_MAX == ShiftL(1, N_BIT_COORD_ADDR) - 1

cx_max == CORE_X_MAX
cx_min == CORE_X_MIN
cy_max == CORE_Y_MAX
cy_min == CORE_Y_MIN
cx_range == cx_max - cx_min + 1
cy_range == cy_max - cy_min + 1

----------------------------------------------------------------------------
(* Outcomes of an operation: a value, or an exception and no value *)

Ok(v) == [raised |-> "none", val |-> v]
Raise(e) == [raised |-> e]
None == [none |-> TRUE]

(* Coord *)

\* The validated constructor Coord(x, y): Field(ge=_cx_min, le=_cx_max).
\* pydantic's ValidationError is a ValueError.
Coord(x, y) ==
    IF x >= cx_min /\ x <= cx_max /\ y >= cy_min /\ y <= cy_max
    THEN Ok([x |-> x, y |-> y])
    ELSE Raise("ValueError")

AllCoords == [x : cx_min..cx_max, y : cy_min..cy_max]

\* Coord.from_addr
FromAddr(a) ==
    IF COORD_Y_PRIORITY
    THEN Coord(ShiftR(a, N_BIT_CORE_Y), BitAnd(a, cy_max))
    ELSE Coord(ShiftR(a, N_BIT_CORE_X), BitAnd(a, cx_max))

AddressNoShift(c) ==
    IF COORD_Y_PRIORITY
    THEN BitOr(ShiftL(c.x, N_BIT_CORE_Y - 1), c.y)
    ELSE BitOr(ShiftL(c.y, N_BIT_CORE_X - 1), c.x)

\* Coord.address
Address(c) ==
    IF COORD_Y_PRIORITY
    THEN BitOr(ShiftL(c.x, N_BIT_CORE_Y), c.y)
    ELSE BitOr(ShiftL(c.y, N_BIT_CORE_X), c.x)

(* CoordOffset *)

\* The validated constructor CoordOffset(delta_x, delta_y):
\* Field(ge=-_cx_max, le=_cx_max).
CoordOffset(dx, dy) ==
    IF dx >= -cx_max /\ dx <= cx_max /\ dy >= -cy_max /\ dy <= cy_max
    THEN Ok([delta_x |-> dx, delta_y |-> dy])
    ELSE Raise("ValueError")

AllCoordOffsets == [delta_x : (-cx_max)..cx_max, delta_y : (-cy_max)..cy_max]

(* _sum_carry *)

\* _sum_carry without the carry into the checked axis: the wrapped axis is
\* reduced modulo its range and the other axis is only range-checked.
SumCarryDropped(cx, cy) ==
    IF COORD_Y_PRIORITY
    THEN IF cy > cy_max
         THEN IF cx > cx_max \/ cx < cx_min THEN Raise("ValueError")
              ELSE Ok(<<cx, cy - cy_range>>)
         ELSE IF cy_min <= cy /\ cy <= cy_max
         THEN IF cx > cx_max \/ cx < cx_min THEN Raise("ValueError")
              ELSE Ok(<<cx, cy>>)
         ELSE IF cx > cx_max \/ cx < cx_min THEN Raise("ValueError")
              ELSE Ok(<<cx, cy + cy_range>>)
    ELSE IF cx > cx_max
         THEN IF cy > cy_max \/ cy < cy_min THEN Raise("ValueError")
              ELSE Ok(<<cx - cy_range, cy>>)
         ELSE IF cx_min <= cx /\ cx <= cx_max
         THEN IF cy > cy_max \/ cy < cy_min THEN Raise("ValueError")
              ELSE Ok(<<cx, cy>>)
         ELSE IF cy > cy_max \/ cy < cy_min THEN Raise("ValueError")
              ELSE Ok(<<cx + cx_range, cy>>)

\* _sum_carry that does not read the priority flag: y always carries into x.
SumCarryYOnly(cx, cy) ==
    IF cy > cy_max
    THEN IF cx + 1 > cx_max \/ cx + 1 < cx_min THEN Raise("ValueError")
         ELSE Ok(<<cx + 1, cy - cy_range>>)
    ELSE IF cy_min <= cy /\ cy <= cy_max
    THEN IF cx > cx_max \/ cx < cx_min THEN Raise("ValueError")
         ELSE Ok(<<cx, cy>>)
    ELSE IF cx - 1 > cx_max \/ cx - 1 < cx_min THEN Raise("ValueError")
         ELSE Ok(<<cx - 1, cy + cy_range>>)

\* _sum_carry(cx, cy): the pair after the carry or borrow, or ValueError
SumCarry(cx, cy) ==
    IF COORD_Y_PRIORITY
    THEN IF cy > cy_max
         THEN IF cx + 1 > cx_max THEN Raise("ValueError")
              ELSE IF cx + 1 < cx_min THEN Raise("ValueError")
              ELSE Ok(<<cx + 1, cy - cy_range>>)
         ELSE IF cy_min <= cy /\ cy <= cy_max
         THEN IF cx > cx_max THEN Raise("ValueError")
              ELSE IF cx < cx_min THEN Raise("ValueError")
              ELSE Ok(<<cx, cy>>)
         ELSE \* cy < _cy_min
              IF cx - 1 > cx_max THEN Raise("ValueError")
              ELSE IF cx - 1 < cx_min THEN Raise("ValueError")
              ELSE Ok(<<cx - 1, cy + cy_range>>)
    ELSE IF cx > cx_max
         THEN IF cy + 1 > cy_max THEN Raise("ValueError")
              ELSE IF cy + 1 < cy_min THEN Raise("ValueError")
              ELSE Ok(<<cx - cy_range, cy + 1>>)
         ELSE IF cx_min <= cx /\ cx <= cx_max
         THEN IF cy > cy_max THEN Raise("ValueError")
              ELSE IF cy < cy_min THEN Raise("ValueError")
              ELSE Ok(<<cx, cy>>)
         ELSE \* cx < _cx_min
              IF cy - 1 > cy_max THEN Raise("ValueError")
              ELSE IF cy - 1 < cy_min THEN Raise("ValueError")
              ELSE Ok(<<cx + cx_range, cy - 1>>)

\* Coord.__add__ without _sum_carry: each axis on its own.
CoordAddNoCarry(c, o) == Coord(c.x + o.delta_x, c.y + o.delta_y)

\* Coord.__add__(CoordOffset): _sum_carry, then the validated constructor
CoordAdd(c, o) ==
    LET s == SumCarry(c.x + o.delta_x, c.y + o.delta_y)
    IN  IF s.raised # "none" THEN s ELSE Coord(s.val[1], s.val[2])

CoordSubNoBorrow(c, o) == Coord(c.x - o.delta_x, c.y - o.delta_y)

\* Coord.__sub__(CoordOffset)
CoordSub(c, o) ==
    LET s == SumCarry(c.x - o.delta_x, c.y - o.delta_y)
    IN  IF s.raised # "none" THEN s ELSE Coord(s.val[1], s.val[2])


----------------------------------------------------------------------------
(* Address conversion: a caller takes the address of a Coord and decodes   *)
(* it again, under either value of the priority flag.                      *)

InitAddr ==
    /\ COORD_Y_PRIORITY \in BOOLEAN
    /\ coord \in AllCoords
    /\ pc = "start"
    /\ addr = -1
    /\ decoded = None
    /\ offset = None
    /\ sum = None /\ diff = None /\ back = None
    /\ last = None /\ nops = 0
    /\ coords = <<>> /\ rid = None /\ ridOut = None /\ cores = None
    /\ args = None /\ frame = None

GetAddress ==
    /\ pc = "start"
    /\ addr' = Address(coord)
    /\ pc' = "address"
    /\ UNCHANGED <<frameVars, COORD_Y_PRIORITY, coord, offset, decoded, arithVars, inplaceVars, routeVars>>

DecodeAddress ==
    /\ pc = "address"
    /\ decoded' = FromAddr(addr)
    /\ pc' = "decoded"
    /\ UNCHANGED <<frameVars, COORD_Y_PRIORITY, coord, offset, addr, arithVars, inplaceVars, routeVars>>

NextAddr == GetAddress \/ DecodeAddress

SpecAddr == InitAddr /\ [][NextAddr]_vars

\* C1: under Y-priority the address of Coord(x, y) is 32*x + y, and
\* decoding that address gives Coord(x, y) back.
C1_AddressRoundTripY ==
    COORD_Y_PRIORITY =>
        /\ pc \in {"address", "decoded"} => addr = 32 * coord.x + coord.y
        /\ pc = "decoded" => decoded = Ok(coord)

C1_Witness ==
    /\ COORD_Y_PRIORITY
    /\ pc = "decoded"
    /\ coord = [x |-> 12, y |-> 13]
    /\ addr = 397
    /\ decoded = Ok([x |-> 12, y |-> 13])

\* C2: under X-priority the address of Coord(x, y) is 32*y + x, and
\* decoding that address gives Coord(x, y) back.
C2_AddressRoundTripX ==
    ~COORD_Y_PRIORITY =>
        /\ pc \in {"address", "decoded"} => addr = 32 * coord.y + coord.x
        /\ pc = "decoded" => decoded = Ok(coord)

----------------------------------------------------------------------------
(* Coord and CoordOffset arithmetic: a caller adds an offset to a Coord,   *)
(* subtracts an offset from it, and subtracts the offset again from a sum. *)

\* Operands: every Coord of the grid; the deltas of the offsets are the
\* extremes, the values within MaxDelta of zero and those of the tests.
MaxDelta == 4
TestDeltas == {-13, 19, 20}
ArithDeltas ==
    {d \in (-cx_max)..cx_max : d \in (-MaxDelta)..MaxDelta \/ d \in {-cx_max, cx_max}}
        \cup TestDeltas
ArithOffsets == {o \in AllCoordOffsets : o.delta_x \in ArithDeltas /\ o.delta_y \in ArithDeltas}

InitArith ==
    /\ COORD_Y_PRIORITY \in BOOLEAN
    /\ coord \in AllCoords
    /\ offset \in ArithOffsets
    /\ pc = "start"
    /\ addr = -1
    /\ decoded = None
    /\ sum = None /\ diff = None /\ back = None
    /\ last = None /\ nops = 0
    /\ coords = <<>> /\ rid = None /\ ridOut = None /\ cores = None
    /\ args = None /\ frame = None

AddOffset ==
    /\ pc = "start"
    /\ sum' = CoordAdd(coord, offset)
    /\ pc' = "added"
    /\ UNCHANGED <<frameVars, COORD_Y_PRIORITY, coord, offset, addrVars, diff, back, inplaceVars, routeVars>>

SubOffset ==
    /\ pc = "start"
    /\ diff' = CoordSub(coord, offset)
    /\ pc' = "subtracted"
    /\ UNCHANGED <<frameVars, COORD_Y_PRIORITY, coord, offset, addrVars, sum, back, inplaceVars, routeVars>>

SubOffsetBack ==
    /\ pc = "added"
    /\ sum.raised = "none"
    /\ back' = CoordSub(sum.val, offset)
    /\ pc' = "back"
    /\ UNCHANGED <<frameVars, COORD_Y_PRIORITY, coord, offset, addrVars, sum, diff, inplaceVars, routeVars>>

NextArith == AddOffset \/ SubOffset \/ SubOffsetBack

SpecArith == InitArith /\ [][NextArith]_vars

\* The result the carry rule describes for the raw sums sx, sy when the
\* axis `wrap` carries into the axis that is checked.
CarryRuleY(sx, sy) ==
    LET r == IF sy > 31 THEN <<sx + 1, sy - 32>>
             ELSE IF sy < 0 THEN <<sx - 1, sy + 32>>
             ELSE <<sx, sy>>
    IN  IF r[1] \in 0..31 THEN Ok([x |-> r[1], y |-> r[2]]) ELSE Raise("ValueError")

CarryRuleX(sx, sy) ==
    LET r == IF sx > 31 THEN <<sx - 32, sy + 1>>
             ELSE IF sx < 0 THEN <<sx + 32, sy - 1>>
             ELSE <<sx, sy>>
    IN  IF r[2] \in 0..31 THEN Ok([x |-> r[1], y |-> r[2]]) ELSE Raise("ValueError")

\* C3: under Y-priority, Coord + CoordOffset (and Coord - CoordOffset with
\* the deltas negated) carries y into x: it succeeds exactly when the
\* resulting x is in 0..31 and raises ValueError otherwise.
C3_CarryY ==
    COORD_Y_PRIORITY =>
        /\ pc = "added" =>
              sum = CarryRuleY(coord.x + offset.delta_x, coord.y + offset.delta_y)
        /\ pc = "subtracted" =>
              diff = CarryRuleY(coord.x - offset.delta_x, coord.y - offset.delta_y)
        /\ (pc = "added" /\ coord = [x |-> 12, y |-> 13]
                /\ offset = [delta_x |-> -2, delta_y |-> 20]) =>
              sum = Ok([x |-> 11, y |-> 1])

C3_Witness ==
    /\ COORD_Y_PRIORITY
    /\ pc = "added"
    /\ coord = [x |-> 12, y |-> 13]
    /\ offset = [delta_x |-> -2, delta_y |-> 20]
    /\ sum = Ok([x |-> 11, y |-> 1])

\* C4: under X-priority the rule is mirrored: x carries into y, and the
\* operation succeeds exactly when the resulting y is in 0..31; the operands
\* Coord(12,13) + CoordOffset(-13,20) succeed under Y-priority only.
C4_CarryX ==
    /\ ~COORD_Y_PRIORITY =>
        /\ pc = "added" =>
              sum = CarryRuleX(coord.x + offset.delta_x, coord.y + offset.delta_y)
        /\ pc = "subtracted" =>
              diff = CarryRuleX(coord.x - offset.delta_x, coord.y - offset.delta_y)
    /\ (pc = "added" /\ coord = [x |-> 12, y |-> 13]
            /\ offset = [delta_x |-> -13, delta_y |-> 20]) =>
          sum = IF COORD_Y_PRIORITY THEN Ok([x |-> 0, y |-> 1]) ELSE Raise("ValueError")

C4_Witness ==
    /\ ~COORD_Y_PRIORITY
    /\ pc = "added"
    /\ coord = [x |-> 30, y |-> 30]
    /\ offset = [delta_x |-> 2, delta_y |-> 0]
    /\ sum = Ok([x |-> 0, y |-> 31])

\* C5: whenever c + o succeeds, (c + o) - o succeeds and equals c.
C5_AddThenSub ==
    /\ pc = "back" => back = Ok(coord)
    /\ (pc = "added" /\ sum.raised = "none") => ENABLED SubOffsetBack

C5_Witness ==
    /\ pc = "back"
    /\ coord = [x |-> 12, y |-> 13]
    /\ offset = [delta_x |-> -2, delta_y |-> 20]
    /\ sum = Ok([x |-> 11, y |-> 1])
    /\ back = Ok([x |-> 12, y |-> 13])

----------------------------------------------------------------------------
(* In-place arithmetic: a caller holds one Coord and one CoordOffset and   *)
(* applies += and -= to them, catching the exceptions they raise.  The     *)
(* objects are plain pydantic dataclasses: assigning a field does not      *)
(* validate it.                                                            *)

\* The right-hand operand of an in-place operator: its Python type and
\* its items (for a CoordOffset, its two deltas).
Operand(t, items) == [type |-> t, items |-> items]
AsOperand(o) == Operand("CoordOffset", <<o.delta_x, o.delta_y>>)

\* _xy_parser(other)
XyParser(other) ==
    IF other.type \notin {"tuple", "CoordOffset"} THEN Raise("TypeError")
    ELSE IF other.type = "tuple"
    THEN IF Len(other.items) # 2 THEN Raise("ValueError")
         ELSE LET o == CoordOffset(other.items[1], other.items[2])
              IN  IF o.raised # "none" THEN o
                  ELSE Ok(<<o.val.delta_x, o.val.delta_y>>)
    ELSE Ok(other.items)

\* The outcome of an in-place operator: the exception raised, if any, and
\* the fields of self when the operator returns or raises.
Inplace(e, obj) == [raised |-> e, self |-> obj]

\* Coord.__iadd__
CoordIAddOp(c, other) ==
    LET p == XyParser(other)
    IN  IF p.raised # "none" THEN Inplace(p.raised, c)
        ELSE LET s == SumCarry(c.x + p.val[1], c.y + p.val[2])
             IN  IF s.raised # "none" THEN Inplace(s.raised, c)
                 ELSE Inplace("none", [x |-> s.val[1], y |-> s.val[2]])

\* Coord.__isub__
CoordISubOp(c, other) ==
    LET p == XyParser(other)
    IN  IF p.raised # "none" THEN Inplace(p.raised, c)
        ELSE LET s == SumCarry(c.x - p.val[1], c.y - p.val[2])
             IN  IF s.raised # "none" THEN Inplace(s.raised, c)
                 ELSE Inplace("none", [x |-> s.val[1], y |-> s.val[2]])

\* CoordOffset._check
OffsetCheck(o) ==
    IF (~(-cx_max <= o.delta_x /\ o.delta_x <= cx_max))
           \/ (~(-cy_max <= o.delta_y /\ o.delta_y <= cy_max))
    THEN "ValueError"
    ELSE "none"

\* CoordOffset.__iadd__: the deltas are updated, then checked
OffsetIAddOp(o, other) ==
    LET p == XyParser(other)
    IN  IF p.raised # "none" THEN Inplace(p.raised, o)
        ELSE LET n == [delta_x |-> o.delta_x + p.val[1],
                       delta_y |-> o.delta_y + p.val[2]]
             IN  Inplace(OffsetCheck(n), n)

\* CoordOffset.__isub__
OffsetISubOp(o, other) ==
    LET p == XyParser(other)
    IN  IF p.raised # "none" THEN Inplace(p.raised, o)
        ELSE LET n == [delta_x |-> o.delta_x - p.val[1],
                       delta_y |-> o.delta_y - p.val[2]]
             IN  Inplace(OffsetCheck(n), n)

\* Operands: the Coords and CoordOffsets of the tests and the corners, at
\* most MaxOps operations per run, tuples over a few deltas that include
\* one out of range, and operands of a wrong type or length.
MaxOps == 2
InplaceCoordVals == {0, 2, 12, 13, 31}
InplaceCoords == {c \in AllCoords : c.x \in InplaceCoordVals /\ c.y \in InplaceCoordVals}
InplaceOffsets == {[delta_x |-> 0, delta_y |-> 0], [delta_x |-> 1, delta_y |-> 2],
                   [delta_x |-> 0, delta_y |-> 31]}
CoordTupleDeltas == {-2, 0, 20, 32}
OffsetTupleDeltas == {0, 1, 30, 31, -33}
Malformed == {Operand("tuple", <<1, 2, 3>>), Operand("list", <<1, 2, 3>>),
              Operand("int", <<1>>)}
CoordOperands ==
    {Operand("tuple", <<a, b>>) : a \in CoordTupleDeltas, b \in CoordTupleDeltas}
        \cup Malformed
OffsetOperands ==
    {Operand("tuple", <<a, b>>) : a \in OffsetTupleDeltas, b \in OffsetTupleDeltas}
        \cup {AsOperand(o) : o \in InplaceOffsets} \cup Malformed

InitInplace ==
    /\ COORD_Y_PRIORITY \in BOOLEAN
    /\ coord \in InplaceCoords
    /\ offset \in InplaceOffsets
    /\ pc = "start"
    /\ addr = -1
    /\ decoded = None
    /\ sum = None /\ diff = None /\ back = None
    /\ last = None /\ nops = 0
    /\ coords = <<>> /\ rid = None /\ ridOut = None /\ cores = None
    /\ args = None /\ frame = None

Done(op, r, before) == [op |-> op, raised |-> r.raised, kept |-> r.self = before]

CoordIAdd ==
    /\ nops < MaxOps
    /\ \E other \in CoordOperands \cup {AsOperand(offset)} :
          LET r == CoordIAddOp(coord, other)
          IN  /\ coord' = r.self
              /\ last' = Done("Coord.__iadd__", r, coord)
    /\ nops' = nops + 1
    /\ UNCHANGED <<frameVars, COORD_Y_PRIORITY, pc, offset, addrVars, arithVars, routeVars>>

CoordISub ==
    /\ nops < MaxOps
    /\ \E other \in CoordOperands \cup {AsOperand(offset)} :
          LET r == CoordISubOp(coord, other)
          IN  /\ coord' = r.self
              /\ last' = Done("Coord.__isub__", r, coord)
    /\ nops' = nops + 1
    /\ UNCHANGED <<frameVars, COORD_Y_PRIORITY, pc, offset, addrVars, arithVars, routeVars>>

OffsetIAdd ==
    /\ nops < MaxOps
    /\ \E other \in OffsetOperands :
          LET r == OffsetIAddOp(offset, other)
          IN  /\ offset' = r.self
              /\ last' = Done("CoordOffset.__iadd__", r, offset)
    /\ nops' = nops + 1
    /\ UNCHANGED <<frameVars, COORD_Y_PRIORITY, pc, coord, addrVars, arithVars, routeVars>>

OffsetISub ==
    /\ nops < MaxOps
    /\ \E other \in OffsetOperands :
          LET r == OffsetISubOp(offset, other)
          IN  /\ offset' = r.self
              /\ last' = Done("CoordOffset.__isub__", r, offset)
    /\ nops' = nops + 1
    /\ UNCHANGED <<frameVars, COORD_Y_PRIORITY, pc, coord, addrVars, arithVars, routeVars>>

NextInplace == CoordIAdd \/ CoordISub \/ OffsetIAdd \/ OffsetISub

SpecInplace == InitInplace /\ [][NextInplace]_vars

\* C6: after any sequence of in-place operations the Coord satisfies
\* 0 <= x <= 31 and 0 <= y <= 31, and an in-place operation on it that
\* raises leaves x and y as they were.
C6_CoordStaysValid ==
    /\ coord.x \in 0..31 /\ coord.y \in 0..31
    /\ (nops > 0 /\ last.op \in {"Coord.__iadd__", "Coord.__isub__"}
            /\ last.raised # "none") => last.kept

\* C7: after any sequence of in-place operations both deltas of the
\* CoordOffset are within [-31, 31], and an in-place operation on it that
\* raises leaves delta_x and delta_y as they were.
C7_OffsetStaysValid ==
    /\ offset.delta_x \in (-31)..31 /\ offset.delta_y \in (-31)..31
    /\ (nops > 0 /\ last.op \in {"CoordOffset.__iadd__", "CoordOffset.__isub__"}
            /\ last.raised # "none") => last.kept

----------------------------------------------------------------------------
(* Replication ids and multicast (routing_defs.py) *)

\* The validated constructor ReplicationId(x, y); it inherits the fields of
\* Coord.
ReplicationId(x, y) == Coord(x, y)

AllRIds == AllCoords

\* Coord.__xor__
CoordXor(a, b) == ReplicationId(BitXor(a.x, b.x), BitXor(a.y, b.y)).val

\* ReplicationId.__ior__
RIdIOr(r, other) == [x |-> BitOr(r.x, other.x), y |-> BitOr(r.y, other.y)]

\* ReplicationId.__ixor__
RIdIXor(r, other) == [x |-> BitXor(r.x, other.x), y |-> BitXor(r.y, other.y)]

\* The loop of get_replication_id over coords[1:], from index i of the
\* sequence (1-based) on.
RECURSIVE RIdFold(_, _, _, _)
RIdFold(base_coord, cs, i, r) ==
    IF i > Len(cs) THEN r
    ELSE RIdFold(base_coord, cs, i + 1, RIdIOr(r, CoordXor(base_coord, cs[i])))

RECURSIVE RIdFoldXor(_, _, _, _)
RIdFoldXor(base_coord, cs, i, r) ==
    IF i > Len(cs) THEN r
    ELSE RIdFoldXor(base_coord, cs, i + 1, RIdIXor(r, CoordXor(base_coord, cs[i])))

GetReplicationIdXorFold(cs) ==
    IF Len(cs) < 1 THEN Raise("ValueError")
    ELSE Ok(RIdFoldXor(cs[1], cs, 2, ReplicationId(0, 0).val))

\* get_replication_id(coords)
GetReplicationId(cs) ==
    IF Len(cs) < 1 THEN Raise("ValueError")
    ELSE Ok(RIdFold(cs[1], cs, 2, ReplicationId(0, 0).val))

\* The loop `for lx in range(n)` of get_multicast_cores, from lx on: the
\* sets corex and corey after it.
RECURSIVE MulticastLoop(_, _, _, _, _)
MulticastLoop(lx, n, corex, corey, r) ==
    IF lx >= n THEN <<corex, corey>>
    ELSE LET newx == IF BitAnd(ShiftR(r.x, lx), 1) # 0
                     THEN corex \cup {BitXor(x, ShiftL(1, lx)) : x \in corex}
                     ELSE corex
             newy == IF BitAnd(ShiftR(r.y, lx), 1) # 0
                     THEN corey \cup {BitXor(y, ShiftL(1, lx)) : y \in corey}
                     ELSE corey
         IN  MulticastLoop(lx + 1, n, newx, newy, r)

GetMulticastCoresLowBits(base_coord, r) ==
    LET p == MulticastLoop(0, 4, {base_coord.x}, {base_coord.y}, r)
    IN  {Coord(x, y).val : x \in p[1], y \in p[2]}

GetMulticastCoresYFromX(base_coord, r) ==
    LET p == MulticastLoop(0, 5, {base_coord.x}, {base_coord.x}, r)
    IN  {Coord(x, y).val : x \in p[1], y \in p[2]}

\* get_multicast_cores(base_coord, rid)
GetMulticastCores(base_coord, r) ==
    LET p == MulticastLoop(0, 5, {base_coord.x}, {base_coord.y}, r)
    IN  {Coord(x, y).val : x \in p[1], y \in p[2]}

(* Multicast expansion: a caller expands a base Coord and a ReplicationId. *)

\* Operands: base Coords over the axis values of the tests, every
\* ReplicationId.
MulticastVals == {0, 1, 2, 6, 7, 8, 18, 19, 31}
MulticastBases == {c \in AllCoords : c.x \in MulticastVals /\ c.y \in MulticastVals}

InitMulticast ==
    /\ COORD_Y_PRIORITY = TRUE
    /\ coord \in MulticastBases
    /\ rid \in AllRIds
    /\ pc = "start"
    /\ offset = None
    /\ addr = -1
    /\ decoded = None
    /\ sum = None /\ diff = None /\ back = None
    /\ last = None /\ nops = 0
    /\ coords = <<>> /\ ridOut = None /\ cores = None
    /\ args = None /\ frame = None

ExpandMulticast ==
    /\ pc = "start"
    /\ cores' = GetMulticastCores(coord, rid)
    /\ pc' = "cores"
    /\ UNCHANGED <<frameVars, COORD_Y_PRIORITY, coord, offset, addrVars, arithVars, inplaceVars,
                   coords, rid, ridOut>>

NextMulticast == ExpandMulticast

SpecMulticast == InitMulticast /\ [][NextMulticast]_vars

\* Bit k of the non-negative integer v, and the number of bits set in a
\* 5-bit value.
Bit(v, k) == (v \div (2 ^ k)) % 2
Popcount(v) == Bit(v, 0) + Bit(v, 1) + Bit(v, 2) + Bit(v, 3) + Bit(v, 4)

\* The values of one axis that agree with b on every bit not set in m.
Agreeing(b, m) ==
    {v \in 0..31 : \A k \in 0..4 : Bit(m, k) = 0 => Bit(v, k) = Bit(b, k)}

\* C9: get_multicast_cores(base, rid) is exactly the set of Coords that
\* agree with base on every bit not set in rid, per axis; it contains base
\* and has 2^(popcount(rid.x) + popcount(rid.y)) elements.
C9_MulticastCores ==
    pc = "cores" =>
        /\ cores = {[x |-> vx, y |-> vy] : vx \in Agreeing(coord.x, rid.x),
                                           vy \in Agreeing(coord.y, rid.y)}
        /\ coord \in cores
        /\ Cardinality(cores) = 2 ^ (Popcount(rid.x) + Popcount(rid.y))
        /\ Cardinality(cores) <= 1024

C9_Witness ==
    /\ pc = "cores"
    /\ coord = [x |-> 0, y |-> 0]
    /\ rid = [x |-> 1, y |-> 2]
    /\ cores = {[x |-> 0, y |-> 0], [x |-> 1, y |-> 0],
                [x |-> 0, y |-> 2], [x |-> 1, y |-> 2]}

(* Replication: a caller derives the ReplicationId of a sequence of Coords *)
(* and expands it from the first of them.                                  *)

\* Operands: sequences of at most MaxCoords Coords over the axis values of
\* the tests.
MaxCoords == 3
ReplicationVals == {0, 1, 16, 31}
ReplicationCoords ==
    {c \in AllCoords : c.x \in ReplicationVals /\ c.y \in ReplicationVals}
CoordSeqs == UNION {[1..n -> ReplicationCoords] : n \in 0..MaxCoords}

InitReplication ==
    /\ COORD_Y_PRIORITY = TRUE
    /\ coords \in CoordSeqs
    /\ pc = "start"
    /\ coord = None /\ offset = None
    /\ addr = -1
    /\ decoded = None
    /\ sum = None /\ diff = None /\ back = None
    /\ last = None /\ nops = 0
    /\ rid = None /\ ridOut = None /\ cores = None
    /\ args = None /\ frame = None

ReplicationIdOf ==
    /\ pc = "start"
    /\ ridOut' = GetReplicationId(coords)
    /\ pc' = "rid"
    /\ UNCHANGED <<frameVars, COORD_Y_PRIORITY, coord, offset, addrVars, arithVars, inplaceVars,
                   coords, rid, cores>>

ExpandReplication ==
    /\ pc = "rid"
    /\ ridOut.raised = "none"
    /\ cores' = GetMulticastCores(coords[1], ridOut.val)
    /\ pc' = "expanded"
    /\ UNCHANGED <<frameVars, COORD_Y_PRIORITY, coord, offset, addrVars, arithVars, inplaceVars,
                   coords, rid, ridOut>>

NextReplication == ReplicationIdOf \/ ExpandReplication

SpecReplication == InitReplication /\ [][NextReplication]_vars

\* The value whose bit k is set exactly when some element after the first
\* differs from the first in bit k of the axis picked by f.
DiffMask(cs, f(_)) ==
    LET differs(k) == \E i \in 2..Len(cs) : Bit(f(cs[i]), k) # Bit(f(cs[1]), k)
        w(k) == IF differs(k) THEN 2 ^ k ELSE 0
    IN  w(0) + w(1) + w(2) + w(3) + w(4)

AxisX(c) == c.x
AxisY(c) == c.y

\* C8: get_replication_id raises ValueError for an empty sequence and
\* otherwise returns the OR over i >= 1 of coords[0] XOR coords[i], per
\* axis; a one-element sequence gives ReplicationId(0,0) and
\* [Coord(0,0), Coord(1,0), Coord(1,1)] gives ReplicationId(1,1).
C8_ReplicationId ==
    pc \in {"rid", "expanded"} =>
        /\ Len(coords) = 0 => ridOut = Raise("ValueError")
        /\ Len(coords) >= 1 =>
              ridOut = Ok([x |-> DiffMask(coords, AxisX), y |-> DiffMask(coords, AxisY)])
        /\ Len(coords) = 1 => ridOut = Ok([x |-> 0, y |-> 0])
        /\ coords = <<[x |-> 0, y |-> 0], [x |-> 1, y |-> 0], [x |-> 1, y |-> 1]>> =>
              ridOut = Ok([x |-> 1, y |-> 1])

C8_Witness ==
    /\ pc = "rid"
    /\ coords = <<[x |-> 0, y |-> 0], [x |-> 1, y |-> 0], [x |-> 1, y |-> 1]>>
    /\ ridOut = Ok([x |-> 1, y |-> 1])

\* C10: for every non-empty sequence cs of Coords,
\* get_multicast_cores(cs[0], get_replication_id(cs)) contains every
\* element of cs.
C10_MulticastCoversCoords ==
    /\ pc = "expanded" => \A i \in 1..Len(coords) : coords[i] \in cores
    /\ (pc = "rid" /\ Len(coords) >= 1) => ENABLED ExpandReplication

C10_Witness ==
    /\ pc = "expanded"
    /\ coords = <<[x |-> 16, y |-> 16], [x |-> 1, y |-> 16], [x |-> 0, y |-> 31]>>
    /\ coords[2] \in cores /\ coords[3] \in cores
    /\ Cardinality(cores) = 64

----------------------------------------------------------------------------
(* Wide integers.                                                          *)
(*                                                                         *)
(* A frame word is a numpy uint64 and a random seed is a Python int of any *)
(* size; both are wider than the integers of the model checker.  A wide    *)
(* integer is therefore a sequence of bits, least significant bit first,   *)
(* and the operators below are Python's `&`, `<<`, `>>` and `+` on it.     *)

Min(a, b) == IF a <= b THEN a ELSE b

Zeros(n) == [i \in 1..n |-> 0]

Ones(n) == [i \in 1..n |-> 1]

RECURSIVE IntBits(_, _)
\* The w low bits of the small non-negative integer v.
IntBits(v, w) == IF w = 0 THEN <<>> ELSE <<v % 2>> \o IntBits(v \div 2, w - 1)

RECURSIVE BitsInt(_)
\* The integer a bit sequence of fewer than 31 bits stands for.
BitsInt(b) ==
    IF b = <<>> THEN 0 ELSE b[1] + 2 * BitsInt(Tail(b))

\* _mask(mask_bit): mask_bit ones
Mask(mask_bit) == Ones(mask_bit)

\* a & b
WideAnd(a, b) == [i \in 1..Min(Len(a), Len(b)) |-> a[i] * b[i]]

\* a | b
WideOr(a, b) ==
    [i \in 1..(IF Len(a) >= Len(b) THEN Len(a) ELSE Len(b)) |->
        IF i > Len(a) THEN b[i] ELSE IF i > Len(b) THEN a[i]
        ELSE IF a[i] + b[i] > 0 THEN 1 ELSE 0]

\* x >> n
WideShiftR(b, n) == SubSeq(b, n + 1, Len(b))

\* x << n
WideShiftL(b, n) == Zeros(n) \o b

RECURSIVE WideAddCarry(_, _, _)
\* a + b + c, 15 bits at a time: the low bits of both are added as
\* integers, and what exceeds 15 bits is carried into the next step.
WideAddCarry(a, b, c) ==
    IF a = <<>> /\ b = <<>> THEN (IF c = 0 THEN <<>> ELSE <<c>>)
    ELSE IF a = <<>> /\ c = 0 THEN b
    ELSE IF b = <<>> /\ c = 0 THEN a
    ELSE LET n == Min(15, IF Len(a) >= Len(b) THEN Len(a) ELSE Len(b))
             x == BitsInt(SubSeq(a, 1, Min(n, Len(a))))
             y == BitsInt(SubSeq(b, 1, Min(n, Len(b))))
             t == x + y + c
         IN  IntBits(t % (2 ^ n), n)
                 \o WideAddCarry(SubSeq(a, n + 1, Len(a)), SubSeq(b, n + 1, Len(b)),
                                 t \div (2 ^ n))

\* a + b
WideAdd(a, b) == WideAddCarry(a, b, 0)

FRAME_LENGTH == 64

GENERAL_MASK == Mask(FRAME_LENGTH)

\* The conversion to FRAME_DTYPE (numpy.uint64): the 64 low bits.
Uint64(b) ==
    LET low == WideAnd(b, GENERAL_MASK)
    IN  low \o Zeros(FRAME_LENGTH - Len(low))

----------------------------------------------------------------------------
(* FrameHeader and FrameFormat (frame_defs.py) *)

CONFIG_TYPE1 == 0
CONFIG_TYPE2 == 1
CONFIG_TYPE3 == 2
CONFIG_TYPE4 == 3
TEST_TYPE1 == 4
TEST_TYPE2 == 5
TEST_TYPE3 == 6
TEST_TYPE4 == 7
WORK_TYPE1 == 8
WORK_TYPE2 == 9
WORK_TYPE3 == 10
WORK_TYPE4 == 11

FrameHeader == CONFIG_TYPE1..WORK_TYPE4

GENERAL_HEADER_OFFSET == 60
GENERAL_HEADER_MASK == Mask(4)
GENERAL_CHIP_ADDR_OFFSET == 50
GENERAL_CHIP_ADDR_MASK == Mask(10)
GENERAL_CORE_ADDR_OFFSET == 40
GENERAL_CORE_ADDR_MASK == Mask(10)
GENERAL_CORE_EX_ADDR_OFFSET == 30
GENERAL_CORE_EX_ADDR_MASK == Mask(10)
GENERAL_PAYLOAD_LENGTH == 30
GENERAL_PAYLOAD_MASK == Mask(GENERAL_PAYLOAD_LENGTH)

----------------------------------------------------------------------------
(* Frame (framelib/base.py).  A Frame is [header, chip_coord, core_coord,  *)
(* rid, payload]; payload is the array of its uint64 payload words.        *)

\* A small non-negative Python int as a wide integer.
Wide(v) == IntBits(v, 31)

\* Frame._frame_common
FrameCommon(f) ==
    LET header == WideAnd(Wide(f.header), GENERAL_HEADER_MASK)
        chip_addr == WideAnd(Wide(Address(f.chip_coord)), GENERAL_CHIP_ADDR_MASK)
        core_addr == WideAnd(Wide(Address(f.core_coord)), GENERAL_CORE_ADDR_MASK)
        rid_addr == WideAnd(Wide(Address(f.rid)), GENERAL_CORE_EX_ADDR_MASK)
    IN  WideAdd(WideAdd(WideAdd(WideShiftL(header, GENERAL_HEADER_OFFSET),
                                WideShiftL(chip_addr, GENERAL_CHIP_ADDR_OFFSET)),
                        WideShiftL(core_addr, GENERAL_CORE_ADDR_OFFSET)),
                WideShiftL(rid_addr, GENERAL_CORE_EX_ADDR_OFFSET))

\* Frame.value with the payload added unmasked.
FrameValueUnmasked(f) ==
    LET frame_common == FrameCommon(f)
    IN  [i \in 1..Len(f.payload) |-> Uint64(WideAdd(frame_common, f.payload[i]))]

\* Frame.value
FrameValue(f) ==
    LET frame_common == FrameCommon(f)
    IN  [i \in 1..Len(f.payload) |->
            Uint64(WideAdd(frame_common, WideAnd(f.payload[i], GENERAL_PAYLOAD_MASK)))]

----------------------------------------------------------------------------
(* SpecFrame: a Frame is built from a header, three coordinates and an     *)
(* array of payload words, and its value is read.                          *)

FrameChips == {[x |-> 1, y |-> 2], [x |-> 31, y |-> 31]}

FrameCores == {[x |-> 0, y |-> 31], [x |-> 21, y |-> 21], [x |-> 31, y |-> 0]}

FrameRIds == {[x |-> 0, y |-> 0], [x |-> 3, y |-> 28], [x |-> 31, y |-> 31]}

\* uint64 payload words: within 30 bits, and with bits at and above bit 30.
PayloadWords ==
    { Uint64(IntBits(0, 1)),
      Uint64(IntBits(715827882, GENERAL_PAYLOAD_LENGTH)),
      Uint64(Ones(GENERAL_PAYLOAD_LENGTH)),
      Uint64(WideShiftL(<<1>>, GENERAL_PAYLOAD_LENGTH)),
      Uint64(WideShiftL(IntBits(1365, 11), GENERAL_PAYLOAD_LENGTH - 1)),
      Ones(FRAME_LENGTH) }

MaxPayload == 2

\* Payload arrays of one word, and of MaxPayload words that differ in the last.
Payloads ==
    {<<w>> : w \in PayloadWords}
        \cup {[i \in 1..MaxPayload |->
                  IF i = MaxPayload THEN w
                  ELSE Uint64(IntBits(715827882 + i, GENERAL_PAYLOAD_LENGTH + 1))] :
              w \in PayloadWords}

InitFrame ==
    /\ COORD_Y_PRIORITY \in BOOLEAN
    /\ pc = "start"
    /\ coord = None /\ offset = None
    /\ addr = -1 /\ decoded = None
    /\ sum = None /\ diff = None /\ back = None
    /\ last = None /\ nops = 0
    /\ coords = <<>> /\ rid = None /\ ridOut = None /\ cores = None
    /\ args \in [header : FrameHeader, chip_coord : FrameChips, core_coord : FrameCores,
                 rid : FrameRIds, payload : Payloads]
    /\ frame = None

\* value = frame.value
GetFrameValue ==
    /\ pc = "start"
    /\ frame' = Ok(FrameValue(args))
    /\ pc' = "value"
    /\ UNCHANGED <<args, COORD_Y_PRIORITY, coord, offset, addrVars, arithVars,
                   inplaceVars, routeVars>>

NextFrame == GetFrameValue

SpecFrame == InitFrame /\ [][NextFrame]_vars

\* The integer held in the width bits of word w that start at bit off.
Field(w, off, width) == BitsInt(SubSeq(w, off + 1, off + width))

\* C11: every word of Frame.value carries the header in bits 63..60, the
\* chip address in bits 59..50, the core address in bits 49..40, the
\* replication address in bits 39..30 and the 30 low bits of the payload
\* word in bits 29..0; a payload wider than 30 bits changes none of the
\* header or address bits.
C11_FrameLayout ==
    pc = "value" =>
        /\ frame.raised = "none"
        /\ Len(frame.val) = Len(args.payload)
        /\ \A i \in 1..Len(args.payload) :
            /\ Len(frame.val[i]) = FRAME_LENGTH
            /\ Field(frame.val[i], 60, 4) = args.header
            /\ Field(frame.val[i], 50, 10) = Address(args.chip_coord)
            /\ Field(frame.val[i], 40, 10) = Address(args.core_coord)
            /\ Field(frame.val[i], 30, 10) = Address(args.rid)
            /\ \A k \in 1..30 : frame.val[i][k] = args.payload[i][k]

C11_Witness ==
    /\ pc = "value"
    /\ frame.raised = "none"
    /\ args.header = WORK_TYPE4
    /\ Len(args.payload) = MaxPayload
    /\ \E k \in 31..FRAME_LENGTH : args.payload[MaxPayload][k] = 1
    /\ Address(args.core_coord) = 693

----------------------------------------------------------------------------
(* Package frames (framelib/frames.py): the neuron-RAM and weight-RAM      *)
(* frames and the test-input frames that ask for them.                     *)

L_PACKAGE_TYPE_CONF_TESTOUT == 0
L_PACKAGE_TYPE_TESTIN == 1

GENERAL_PACKAGE_SRAM_ADDR_OFFSET == 20
GENERAL_PACKAGE_SRAM_ADDR_MASK == Mask(10)
GENERAL_PACKAGE_TYPE_OFFSET == 19
GENERAL_PACKAGE_TYPE_MASK == Mask(1)
GENERAL_PACKAGE_NUM_OFFSET == 0
GENERAL_PACKAGE_NUM_MASK == Mask(19)

\* The payload fields of _package_arg_check, joined without a range check
\* on the upper end of n_package.
PackageArgCheckMasked(sram_base_addr, n_package, package_type) ==
    IF sram_base_addr > BitsInt(GENERAL_PACKAGE_SRAM_ADDR_MASK) \/ sram_base_addr < 0
    THEN Raise("ValueError")
    ELSE IF n_package < 0
    THEN Raise("ValueError")
    ELSE Ok(Uint64(
            WideOr(WideOr(WideShiftL(WideAnd(Wide(sram_base_addr),
                                             GENERAL_PACKAGE_SRAM_ADDR_MASK),
                                     GENERAL_PACKAGE_SRAM_ADDR_OFFSET),
                          WideShiftL(WideAnd(Wide(package_type),
                                             GENERAL_PACKAGE_TYPE_MASK),
                                     GENERAL_PACKAGE_TYPE_OFFSET)),
                   WideShiftL(WideAnd(Wide(n_package), GENERAL_PACKAGE_NUM_MASK),
                              GENERAL_PACKAGE_NUM_OFFSET))))

\* _package_arg_check
PackageArgCheck(sram_base_addr, n_package, package_type) ==
    IF sram_base_addr > BitsInt(GENERAL_PACKAGE_SRAM_ADDR_MASK) \/ sram_base_addr < 0
    THEN Raise("ValueError")
    ELSE IF n_package > BitsInt(GENERAL_PACKAGE_NUM_MASK) \/ n_package < 0
    THEN Raise("ValueError")
    ELSE Ok(Uint64(
            WideOr(WideOr(WideShiftL(WideAnd(Wide(sram_base_addr),
                                             GENERAL_PACKAGE_SRAM_ADDR_MASK),
                                     GENERAL_PACKAGE_SRAM_ADDR_OFFSET),
                          WideShiftL(WideAnd(Wide(package_type),
                                             GENERAL_PACKAGE_TYPE_MASK),
                                     GENERAL_PACKAGE_TYPE_OFFSET)),
                   WideShiftL(WideAnd(Wide(n_package), GENERAL_PACKAGE_NUM_MASK),
                              GENERAL_PACKAGE_NUM_OFFSET))))

\* FramePackage.value: word 0, then the package words.
FramePackageValue(f) ==
    <<Uint64(WideAdd(FrameCommon(f), WideAnd(f.payload, GENERAL_PAYLOAD_MASK)))>>
        \o f.packages

\* bin_split cutting one bit higher than asked.
BinSplitHigher(x, pos, high_mask_bit) ==
    [low |-> WideAnd(x, Mask(pos + 1)),
     high |-> WideAnd(WideShiftR(x, pos + 1), Mask(high_mask_bit))]

\* bin_split(x, pos, high_mask_bit), with the mask width given
BinSplit(x, pos, high_mask_bit) ==
    [low |-> WideAnd(x, Mask(pos)),
     high |-> WideAnd(WideShiftR(x, pos), Mask(high_mask_bit))]

\* (v & mask) << off
Packed(v, mask, off) == WideShiftL(WideAnd(v, mask), off)

RECURSIVE WideOrAll(_)
\* a | b | ...
WideOrAll(s) == IF s = <<>> THEN <<>> ELSE WideOr(Head(s), WideOrAll(Tail(s)))

RECURSIVE Ravel(_)
\* numpy.ravel of a two-dimensional array: its rows, one after another.
Ravel(m) == IF m = <<>> THEN <<>> ELSE Head(m) \o Ravel(Tail(m))

\* A row, reps times over.
Repeated(row, reps) ==
    [k \in 1..(Len(row) * reps) |-> row[((k - 1) % Len(row)) + 1]]

\* numpy.tile(m, (reps, 1)): the whole array, reps times along the first axis.
TileRows(m, reps) == Repeated(m, reps)

\* numpy.tile(m, reps) of a two-dimensional array and a count: every row is
\* laid out reps times along the last axis.
Tile(m, reps) == [i \in 1..Len(m) |-> Repeated(m[i], reps)]

N_FRAME_PER_NEURON_RAM == 4

\* OfflineConfigFrame3Format (Off_NRAMF): the layout of the four RAM words.
Off_NRAMF ==
    [VJT_PRE_OFFSET |-> 0,
     VJT_PRE_MASK |-> Mask(30),
     BIT_TRUNCATE_OFFSET |-> 30,
     BIT_TRUNCATE_MASK |-> Mask(5),
     WEIGHT_DET_STOCH_OFFSET |-> 35,
     WEIGHT_DET_STOCH_MASK |-> Mask(1),
     LEAK_V_LOW28_OFFSET |-> 36,
     LEAK_V_LOW28_MASK |-> Mask(28),
     LEAK_V_HIGH2_OFFSET |-> 0,
     LEAK_V_HIGH2_MASK |-> Mask(2),
     LEAK_DET_STOCH_OFFSET |-> 2,
     LEAK_DET_STOCH_MASK |-> Mask(1),
     LEAK_REVERSAL_FLAG_OFFSET |-> 3,
     LEAK_REVERSAL_FLAG_MASK |-> Mask(1),
     THRESHOLD_POS_OFFSET |-> 4,
     THRESHOLD_POS_MASK |-> Mask(29),
     THRESHOLD_NEG_OFFSET |-> 33,
     THRESHOLD_NEG_MASK |-> Mask(29),
     THRESHOLD_NEG_MODE_OFFSET |-> 62,
     THRESHOLD_NEG_MODE_MASK |-> Mask(1),
     THRESHOLD_MASK_CTRL_LOW1_OFFSET |-> 63,
     THRESHOLD_MASK_CTRL_LOW1_MASK |-> Mask(1),
     THRESHOLD_MASK_CTRL_HIGH4_OFFSET |-> 0,
     THRESHOLD_MASK_CTRL_HIGH4_MASK |-> Mask(4),
     LEAK_POST_OFFSET |-> 4,
     LEAK_POST_MASK |-> Mask(1),
     RESET_V_OFFSET |-> 5,
     RESET_V_MASK |-> Mask(30),
     RESET_MODE_OFFSET |-> 35,
     RESET_MODE_MASK |-> Mask(2),
     ADDR_CHIP_Y_OFFSET |-> 37,
     ADDR_CHIP_Y_MASK |-> Mask(5),
     ADDR_CHIP_X_OFFSET |-> 42,
     ADDR_CHIP_X_MASK |-> Mask(5),
     ADDR_CORE_Y_EX_OFFSET |-> 47,
     ADDR_CORE_Y_EX_MASK |-> Mask(5),
     ADDR_CORE_X_EX_OFFSET |-> 52,
     ADDR_CORE_X_EX_MASK |-> Mask(5),
     ADDR_CORE_Y_OFFSET |-> 57,
     ADDR_CORE_Y_MASK |-> Mask(5),
     ADDR_CORE_X_LOW2_OFFSET |-> 62,
     ADDR_CORE_X_LOW2_MASK |-> Mask(2),
     ADDR_CORE_X_HIGH3_OFFSET |-> 0,
     ADDR_CORE_X_HIGH3_MASK |-> Mask(3),
     ADDR_AXON_OFFSET |-> 3,
     ADDR_AXON_MASK |-> Mask(11),
     TICK_RELATIVE_OFFSET |-> 14,
     TICK_RELATIVE_MASK |-> Mask(8)]

\* attrs.get("voltage", 0)
Voltage(attrs) == IF "voltage" \in DOMAIN attrs THEN attrs.voltage ELSE 0

\* _gen_ram_frame1_and_2(leak_v): the words RAM[63:0] and RAM[127:64].
GenRamFrame1And2(attrs, leak_v) ==
    LET lv == BinSplit(Wide(leak_v), 28, 2)
        tmc == BinSplit(Wide(attrs.threshold_mask_ctrl), 1, 4)
    IN  <<Uint64(WideOrAll(<<
              Packed(Wide(Voltage(attrs)), Off_NRAMF.VJT_PRE_MASK, Off_NRAMF.VJT_PRE_OFFSET),
              Packed(Wide(attrs.bit_truncate), Off_NRAMF.BIT_TRUNCATE_MASK, Off_NRAMF.BIT_TRUNCATE_OFFSET),
              Packed(Wide(attrs.weight_det_stoch), Off_NRAMF.WEIGHT_DET_STOCH_MASK,
                     Off_NRAMF.WEIGHT_DET_STOCH_OFFSET),
              Packed(lv.low, Off_NRAMF.LEAK_V_LOW28_MASK, Off_NRAMF.LEAK_V_LOW28_OFFSET)>>)),
          Uint64(WideOrAll(<<
              Packed(lv.high, Off_NRAMF.LEAK_V_HIGH2_MASK, Off_NRAMF.LEAK_V_HIGH2_OFFSET),
              Packed(Wide(attrs.leak_det_stoch), Off_NRAMF.LEAK_DET_STOCH_MASK,
                     Off_NRAMF.LEAK_DET_STOCH_OFFSET),
              Packed(Wide(attrs.leak_reversal_flag), Off_NRAMF.LEAK_REVERSAL_FLAG_MASK,
                     Off_NRAMF.LEAK_REVERSAL_FLAG_OFFSET),
              Packed(Wide(attrs.threshold_pos), Off_NRAMF.THRESHOLD_POS_MASK, Off_NRAMF.THRESHOLD_POS_OFFSET),
              Packed(Wide(attrs.threshold_neg), Off_NRAMF.THRESHOLD_NEG_MASK, Off_NRAMF.THRESHOLD_NEG_OFFSET),
              Packed(Wide(attrs.threshold_neg_mode), Off_NRAMF.THRESHOLD_NEG_MODE_MASK,
                     Off_NRAMF.THRESHOLD_NEG_MODE_OFFSET),
              Packed(tmc.low, Off_NRAMF.THRESHOLD_MASK_CTRL_LOW1_MASK,
                     Off_NRAMF.THRESHOLD_MASK_CTRL_LOW1_OFFSET)>>))>>

\* _gen_ram_frame3(): the word RAM[191:128].
GenRamFrame3(attrs, dest_info) ==
    LET tmc == BinSplit(Wide(attrs.threshold_mask_ctrl), 1, 4)
        acx == BinSplit(Wide(dest_info.addr_core_x), 2, 3)
    IN  Uint64(WideOrAll(<<
            Packed(tmc.high, Off_NRAMF.THRESHOLD_MASK_CTRL_HIGH4_MASK,
                   Off_NRAMF.THRESHOLD_MASK_CTRL_HIGH4_OFFSET),
            Packed(Wide(attrs.leak_post), Off_NRAMF.LEAK_POST_MASK, Off_NRAMF.LEAK_POST_OFFSET),
            Packed(Wide(attrs.reset_v), Off_NRAMF.RESET_V_MASK, Off_NRAMF.RESET_V_OFFSET),
            Packed(Wide(attrs.reset_mode), Off_NRAMF.RESET_MODE_MASK, Off_NRAMF.RESET_MODE_OFFSET),
            Packed(Wide(dest_info.addr_chip_y), Off_NRAMF.ADDR_CHIP_Y_MASK, Off_NRAMF.ADDR_CHIP_Y_OFFSET),
            Packed(Wide(dest_info.addr_chip_x), Off_NRAMF.ADDR_CHIP_X_MASK, Off_NRAMF.ADDR_CHIP_X_OFFSET),
            Packed(Wide(dest_info.addr_core_y_ex), Off_NRAMF.ADDR_CORE_Y_EX_MASK,
                   Off_NRAMF.ADDR_CORE_Y_EX_OFFSET),
            Packed(Wide(dest_info.addr_core_x_ex), Off_NRAMF.ADDR_CORE_X_EX_MASK,
                   Off_NRAMF.ADDR_CORE_X_EX_OFFSET),
            Packed(Wide(dest_info.addr_core_y), Off_NRAMF.ADDR_CORE_Y_MASK, Off_NRAMF.ADDR_CORE_Y_OFFSET),
            Packed(acx.low, Off_NRAMF.ADDR_CORE_X_LOW2_MASK, Off_NRAMF.ADDR_CORE_X_LOW2_OFFSET)>>))

\* _gen_ram_frame4(idx): the word RAM[213:192]; idx counts from 0.
GenRamFrame4(dest_info, idx) ==
    LET acx == BinSplit(Wide(dest_info.addr_core_x), 2, 3)
    IN  Uint64(WideOrAll(<<
            Packed(acx.high, Off_NRAMF.ADDR_CORE_X_HIGH3_MASK, Off_NRAMF.ADDR_CORE_X_HIGH3_OFFSET),
            Packed(Wide(dest_info.addr_axon[idx + 1]), Off_NRAMF.ADDR_AXON_MASK, Off_NRAMF.ADDR_AXON_OFFSET),
            Packed(Wide(dest_info.tick_relative[idx + 1]), Off_NRAMF.TICK_RELATIVE_MASK,
                   Off_NRAMF.TICK_RELATIVE_OFFSET)>>))

\* The array _packages before the tiling, one row of four words for each
\* neuron: with an int leak_v words 1 to 3 are computed once and laid into
\* every row, with an array they are computed from leak_v[i].
NeuronPackages(attrs, dest_info, n_neuron) ==
    [i \in 1..n_neuron |->
        LET leak_v == IF "array" \in DOMAIN attrs.leak_v THEN attrs.leak_v.array[i]
                      ELSE attrs.leak_v.scalar
        IN  GenRamFrame1And2(attrs, leak_v)
                \o <<GenRamFrame3(attrs, dest_info), GenRamFrame4(dest_info, i - 1)>>]

\* _NeuronRAMFrame._get_packages without the tiling.
GetPackagesUntiled(a, n_neuron, repeat) ==
    IF Len(a.dest_info.tick_relative) # Len(a.dest_info.addr_axon) THEN Raise("ValueError")
    ELSE IF n_neuron > Len(a.dest_info.tick_relative) THEN Raise("ValueError")
    ELSE IF n_neuron < 0 THEN Raise("ValueError")
    ELSE IF "array" \in DOMAIN a.attrs.leak_v /\ Len(a.attrs.leak_v.array) # n_neuron
    THEN Raise("ValueError")
    ELSE IF repeat < 0 THEN Raise("ValueError")
    ELSE Ok(Ravel(NeuronPackages(a.attrs, a.dest_info, n_neuron)))

\* _NeuronRAMFrame._get_packages; a.attrs.leak_v is [scalar |-> v] for an
\* int and [array |-> s] for an array.
GetPackages(a, n_neuron, repeat) ==
    IF Len(a.dest_info.tick_relative) # Len(a.dest_info.addr_axon) THEN Raise("ValueError")
    ELSE IF n_neuron > Len(a.dest_info.tick_relative) THEN Raise("ValueError")
    ELSE IF n_neuron < 0 THEN Raise("ValueError")
    ELSE IF "array" \in DOMAIN a.attrs.leak_v /\ Len(a.attrs.leak_v.array) # n_neuron
    THEN Raise("ValueError")
    ELSE IF repeat < 0 THEN Raise("ValueError")
    ELSE Ok(Ravel(Tile(NeuronPackages(a.attrs, a.dest_info, n_neuron), repeat)))

\* FramePackage.__init__ followed by the reading of value and n_package.
FramePackage(header, a, payload, packages) ==
    LET f == [header |-> header, chip_coord |-> a.chip_coord,
              core_coord |-> a.core_coord, rid |-> a.rid,
              payload |-> payload, packages |-> packages]
    IN  Ok([payload |-> payload, packages |-> packages,
            n_package |-> Len(packages), value |-> FramePackageValue(f)])

\* _NeuronRAMFrame.__init__
NeuronRAMFrame(header, a, repeat) ==
    LET n_package == N_FRAME_PER_NEURON_RAM * a.n_neuron * repeat
        payload == PackageArgCheck(a.sram_base_addr, n_package,
                                   L_PACKAGE_TYPE_CONF_TESTOUT)
        packages == GetPackages(a, a.n_neuron, repeat)
    IN  IF payload.raised # "none" THEN payload
        ELSE IF packages.raised # "none" THEN packages
        ELSE FramePackage(header, a, payload.val, packages.val)

\* _WeightRAMFrame.__init__; a.weight_ram is a two-dimensional array.
WeightRAMFrame(header, a) ==
    LET payload == PackageArgCheck(a.sram_base_addr, a.n_package,
                                   L_PACKAGE_TYPE_CONF_TESTOUT)
    IN  IF payload.raised # "none" THEN payload
        ELSE FramePackage(header, a, payload.val, Ravel(a.weight_ram))

\* OfflineTestInFrame3.__init__ and OfflineTestInFrame4.__init__: a Frame
\* of one payload word.
TestInFrame(header, a) ==
    LET payload == PackageArgCheck(a.sram_base_addr, a.n_package,
                                   L_PACKAGE_TYPE_TESTIN)
    IN  IF payload.raised # "none" THEN payload
        ELSE Ok([payload |-> payload.val,
                 value |-> FrameValue([header |-> header, chip_coord |-> a.chip_coord,
                                       core_coord |-> a.core_coord, rid |-> a.rid,
                                       payload |-> <<payload.val>>])])

\* An optional argument that was given.
Some(v) == [some |-> v]

\* OfflineFrameGen.gen_testout_frame3: repeat from lcn_ex and weight_width
\* when both are given, else the keyword argument.
GenTestoutFrame3Repeat(a) ==
    IF a.lcn_ex # None /\ a.weight_width # None
    THEN Ok(ShiftL(1, a.lcn_ex.some + a.weight_width.some))
    ELSE IF a.repeat # None THEN Ok(a.repeat.some) ELSE Raise("AssertionError")

HeaderOf(cls) ==
    CASE cls = "OfflineConfigFrame3" -> CONFIG_TYPE3
      [] cls = "OfflineConfigFrame4" -> CONFIG_TYPE4
      [] cls = "OfflineTestInFrame3" -> TEST_TYPE3
      [] cls = "OfflineTestOutFrame3" -> TEST_TYPE3
      [] cls = "OfflineTestInFrame4" -> TEST_TYPE4
      [] cls = "OfflineTestOutFrame4" -> TEST_TYPE4

----------------------------------------------------------------------------
(* SpecPackage: one package frame is constructed from drawn arguments.     *)

MaxNeuron == 2
MaxRepeat == 3
MaxWeights == 2

LCNExtensionType == 0..6
WeightWidthType == 0..3

SramAddrs == {-1, 0, 5, 1023, 1024}

\* Counts around both ends of the 19-bit field.
PackageCounts == {-1, 0, 1, MaxWeights, 4, 524287, 524288}

\* Repeat counts, one of them large enough to overflow the count field.
Repeats == (-1..MaxRepeat) \cup {131072}

PackagePlaces ==
    [chip_coord : FrameChips, core_coord : {[x |-> 1, y |-> 1]},
     rid : {[x |-> 0, y |-> 0]}]

Place(pl, r) == [k \in DOMAIN pl \cup DOMAIN r |-> IF k \in DOMAIN pl THEN pl[k] ELSE r[k]]

\* Destinations of up to MaxNeuron neurons: the ticks and axons differ from
\* one neuron to the next.
TickRelatives == {[i \in 1..n |-> 3 * i] : n \in {MaxNeuron - 1, MaxNeuron}}

AddrAxons == {[i \in 1..n |-> 1152 - i] : n \in {MaxNeuron - 1, MaxNeuron}}

NeuronDestInfos ==
    [addr_chip_x : {1}, addr_chip_y : {2}, addr_core_x : {22}, addr_core_y : {9},
     addr_core_x_ex : {3}, addr_core_y_ex : {0},
     tick_relative : TickRelatives, addr_axon : AddrAxons]

\* Leak voltages: an int, or an array with one value for each neuron, in
\* turn above 2^28 and negative.
LeakVs ==
    {[scalar |-> -3]}
        \cup {[array |-> [i \in 1..n |-> IF i % 2 = 1 THEN 268435456 + i ELSE -i]] :
                 n \in {MaxNeuron - 1, MaxNeuron}}

NeuronAttrs ==
    [reset_mode : {1}, reset_v : {-1}, leak_post : {1}, threshold_mask_ctrl : {21},
     threshold_neg_mode : {1}, threshold_neg : {5}, threshold_pos : {536870911},
     leak_reversal_flag : {0}, leak_det_stoch : {1}, leak_v : LeakVs,
     weight_det_stoch : {1}, bit_truncate : {8}]

NeuronRAMArgs ==
    {Place(pl, r) : pl \in PackagePlaces,
        r \in [cls : {"OfflineConfigFrame3", "OfflineTestOutFrame3"},
               sram_base_addr : SramAddrs, n_neuron : -1..MaxNeuron,
               repeat : Repeats,
               attrs : NeuronAttrs, dest_info : NeuronDestInfos]}

\* Weight arrays of up to MaxWeights rows and columns, of two words in turn.
WeightRams ==
    {[i \in 1..r |-> [j \in 1..c |->
        IF (i + j) % 2 = 0 THEN Uint64(Wide(1)) ELSE Ones(FRAME_LENGTH)]] :
     r, c \in 0..MaxWeights}

WeightRAMArgs ==
    {Place(pl, r) : pl \in PackagePlaces,
        r \in [cls : {"OfflineConfigFrame4", "OfflineTestOutFrame4"},
               sram_base_addr : SramAddrs, n_package : PackageCounts,
               weight_ram : WeightRams]}

TestInArgs ==
    {Place(pl, r) : pl \in PackagePlaces,
        r \in [cls : {"OfflineTestInFrame3", "OfflineTestInFrame4"},
               sram_base_addr : SramAddrs, n_package : PackageCounts]}

GenArgs ==
    {Place(pl, r) : pl \in PackagePlaces,
        r \in [cls : {"gen_testout_frame3"},
               sram_base_addr : {0, 1023}, n_neuron : {1, MaxNeuron},
               lcn_ex : {Some(v) : v \in LCNExtensionType} \cup {None},
               weight_width : {Some(v) : v \in WeightWidthType} \cup {None},
               repeat : {None, Some(MaxRepeat)},
               attrs : {at \in NeuronAttrs : "scalar" \in DOMAIN at.leak_v},
               dest_info : {d \in NeuronDestInfos :
                              /\ Len(d.tick_relative) = MaxNeuron
                              /\ Len(d.addr_axon) = MaxNeuron}]}

InitPackage ==
    /\ COORD_Y_PRIORITY \in BOOLEAN
    /\ pc = "start"
    /\ coord = None /\ offset = None
    /\ addr = -1 /\ decoded = None
    /\ sum = None /\ diff = None /\ back = None
    /\ last = None /\ nops = 0
    /\ coords = <<>> /\ rid = None /\ ridOut = None /\ cores = None
    /\ args \in NeuronRAMArgs \cup WeightRAMArgs \cup TestInArgs \cup GenArgs
    /\ frame = None

Built(f) ==
    /\ frame' = f
    /\ pc' = "built"
    /\ UNCHANGED <<args, COORD_Y_PRIORITY, coord, offset, addrVars, arithVars,
                   inplaceVars, routeVars>>

\* OfflineConfigFrame3(...) / OfflineTestOutFrame3(...)
NewNeuronRAMFrame ==
    /\ pc = "start"
    /\ args.cls \in {"OfflineConfigFrame3", "OfflineTestOutFrame3"}
    /\ Built(NeuronRAMFrame(HeaderOf(args.cls), args, args.repeat))

\* OfflineConfigFrame4(...) / OfflineTestOutFrame4(...)
NewWeightRAMFrame ==
    /\ pc = "start"
    /\ args.cls \in {"OfflineConfigFrame4", "OfflineTestOutFrame4"}
    /\ Built(WeightRAMFrame(HeaderOf(args.cls), args))

\* OfflineTestInFrame3(...) / OfflineTestInFrame4(...)
NewTestInFrame ==
    /\ pc = "start"
    /\ args.cls \in {"OfflineTestInFrame3", "OfflineTestInFrame4"}
    /\ Built(TestInFrame(HeaderOf(args.cls), args))

\* OfflineFrameGen.gen_testout_frame3(...)
GenTestoutFrame3 ==
    /\ pc = "start"
    /\ args.cls = "gen_testout_frame3"
    /\ LET repeat == GenTestoutFrame3Repeat(args)
       IN  Built(IF repeat.raised # "none" THEN repeat
                 ELSE NeuronRAMFrame(TEST_TYPE3, args, repeat.val))

NextPackage ==
    \/ NewNeuronRAMFrame
    \/ NewWeightRAMFrame
    \/ NewTestInFrame
    \/ GenTestoutFrame3

SpecPackage == InitPackage /\ [][NextPackage]_vars

IsPackageFrame ==
    /\ pc = "built"
    /\ frame.raised = "none"
    /\ args.cls \notin {"OfflineTestInFrame3", "OfflineTestInFrame4"}

\* C12: in every package frame that was constructed, the package-count
\* field in bits 18..0 of word 0 is the number of package words that
\* follow word 0, and that number is len(value) - 1.
C12_PackageCount ==
    IsPackageFrame =>
        /\ Len(frame.val.packages) = Len(frame.val.value) - 1
        /\ Field(frame.val.value[1], 0, 19) = Len(frame.val.packages)

NeuronRAMClasses == {"OfflineConfigFrame3", "OfflineTestOutFrame3", "gen_testout_frame3"}

TestInClasses == {"OfflineTestInFrame3", "OfflineTestInFrame4"}

\* Whether the call at hand fixes a repeat count, and which.
HasRepeat ==
    /\ args.cls \in NeuronRAMClasses
    /\ args.cls = "gen_testout_frame3" =>
          \/ args.lcn_ex # None /\ args.weight_width # None
          \/ args.repeat # None

RepeatUsed ==
    IF args.cls # "gen_testout_frame3" THEN args.repeat
    ELSE IF args.lcn_ex # None /\ args.weight_width # None
         THEN Pow2(args.lcn_ex.some + args.weight_width.some)
         ELSE args.repeat.some

\* C13: a neuron-RAM frame that was constructed for n_neuron neurons with
\* repeat >= 1 has the count 4 * n_neuron * repeat in bits 18..0 of word 0
\* and as many package words; the generator's repeat is
\* 2^(lcn_ex + weight_width) when both are given.
C13_NeuronPackageCount ==
    (pc = "built" /\ frame.raised = "none" /\ HasRepeat /\ RepeatUsed >= 1) =>
        LET n == 4 * args.n_neuron * RepeatUsed
        IN  /\ Field(frame.val.value[1], 0, 19) = n
            /\ frame.val.n_package = n
            /\ Len(frame.val.packages) = n
            /\ Len(frame.val.value) = n + 1

C13_Witness ==
    /\ pc = "built"
    /\ frame.raised = "none"
    /\ args.cls = "gen_testout_frame3"
    /\ args.lcn_ex = Some(1) /\ args.weight_width = Some(1)
    /\ args.n_neuron = MaxNeuron
    /\ frame.val.n_package = 16 * MaxNeuron

\* C28: the package array of a neuron-RAM frame for n_neuron neurons with
\* repeat = r lists the neurons in index order, each neuron's four words r
\* times in a row before the next neuron's: the word at index
\* (i*r + t)*4 + j is word j of neuron i.  Word 4 of neuron i carries
\* addr_axon[i] in bits 13..3 and tick_relative[i] in bits 21..14, word 1
\* carries the low 28 bits of an array leak_v[i] in bits 63..36, and with a
\* scalar leak_v words 1 to 3 are the same for all neurons.
C28_PackageLayout ==
    (pc = "built" /\ frame.raised = "none" /\ HasRepeat /\ RepeatUsed >= 1) =>
        LET r == RepeatUsed
            n == args.n_neuron
            P == frame.val.packages
            W(i, t, j) == P[(i * r + t) * 4 + j + 1]
        IN  /\ Len(P) = 4 * n * r
            /\ \A i \in 0..(n - 1) :
                   /\ \A t \in 0..(r - 1), j \in 0..3 : W(i, t, j) = W(i, 0, j)
                   /\ Field(W(i, 0, 3), 3, 11) = args.dest_info.addr_axon[i + 1]
                   /\ Field(W(i, 0, 3), 14, 8) = args.dest_info.tick_relative[i + 1]
                   /\ "array" \in DOMAIN args.attrs.leak_v =>
                          Field(W(i, 0, 0), 36, 28) =
                              args.attrs.leak_v.array[i + 1] % (2 ^ 28)
                   /\ "scalar" \in DOMAIN args.attrs.leak_v =>
                          \A j \in 0..2 : W(i, 0, j) = W(0, 0, j)

C28_Witness ==
    /\ pc = "built"
    /\ frame.raised = "none"
    /\ args.cls = "OfflineConfigFrame3"
    /\ args.n_neuron = 2 /\ args.repeat = 3
    /\ "array" \in DOMAIN args.attrs.leak_v
    /\ Len(frame.val.packages) = 24
    /\ Field(frame.val.packages[12], 3, 11) = 1151
    /\ Field(frame.val.packages[16], 3, 11) = 1150
    /\ Field(frame.val.packages[16], 14, 8) = 6
    /\ frame.val.packages[13] # frame.val.packages[1]

\* The arguments _package_arg_check receives in the call at hand.
CountArg ==
    IF args.cls \in NeuronRAMClasses THEN 4 * args.n_neuron * RepeatUsed
    ELSE args.n_package

TypeArg == IF args.cls \in TestInClasses THEN 1 ELSE 0

ArgsInRange ==
    /\ 0 <= args.sram_base_addr /\ args.sram_base_addr <= 1023
    /\ 0 <= CountArg /\ CountArg <= 524287

\* C14: the header payload of a package frame is built exactly when
\* 0 <= sram_base_addr <= 1023 and 0 <= n_package <= 2^19 - 1, and the call
\* raises ValueError otherwise; the payload is sram_base_addr in bits
\* 29..20, the package type in bit 19 (1 for the test-input frames, else 0)
\* and n_package in bits 18..0.
C14_PackagePayload ==
    (pc = "built" /\ (args.cls \in NeuronRAMClasses => HasRepeat)) =>
        /\ ~ArgsInRange => frame = Raise("ValueError")
        /\ (ArgsInRange /\ args.cls \notin NeuronRAMClasses) => frame.raised = "none"
        /\ frame.raised = "none" =>
            /\ ArgsInRange
            /\ \A w \in {frame.val.payload, frame.val.value[1]} :
                /\ Field(w, 20, 10) = args.sram_base_addr
                /\ Field(w, 19, 1) = TypeArg
                /\ Field(w, 0, 19) = CountArg
            /\ \A k \in 31..FRAME_LENGTH : frame.val.payload[k] = 0

C14_Witness ==
    /\ pc = "built"
    /\ frame.raised = "none"
    /\ args.cls = "OfflineTestInFrame4"
    /\ args.sram_base_addr = 1023
    /\ args.n_package = 524287
    /\ Field(frame.val.value[1], 0, 30) = 1073741823

----------------------------------------------------------------------------
(* Random-seed frames and the sync frame (framelib/frames.py): the two     *)
(* frames whose argument is truncated with a warning.                      *)

\* a > b
WideGt(a, b) ==
    LET bit(s, i) == IF i <= Len(s) THEN s[i] ELSE 0
        n == IF Len(a) >= Len(b) THEN Len(a) ELSE Len(b)
    IN  \E i \in 1..n :
            /\ bit(a, i) = 1 /\ bit(b, i) = 0
            /\ \A j \in (i + 1)..n : bit(a, j) = bit(b, j)

\* _RandomSeedFrame._random_seed_split with the low four bits left in place.
RandomSeedSplitUnshifted(random_seed) ==
    LET seed == WideAnd(random_seed, GENERAL_MASK)
    IN  << Uint64(WideAnd(WideShiftR(seed, 34), GENERAL_PAYLOAD_MASK)),
           Uint64(WideAnd(WideShiftR(seed, 4), GENERAL_PAYLOAD_MASK)),
           Uint64(WideAnd(seed, Mask(4))) >>

\* _RandomSeedFrame._random_seed_split
RandomSeedSplit(random_seed) ==
    LET seed == WideAnd(random_seed, GENERAL_MASK)
    IN  << Uint64(WideAnd(WideShiftR(seed, 34), GENERAL_PAYLOAD_MASK)),
           Uint64(WideAnd(WideShiftR(seed, 4), GENERAL_PAYLOAD_MASK)),
           Uint64(WideShiftL(WideAnd(seed, Mask(4)), GENERAL_PAYLOAD_LENGTH - 4)) >>

\* A constructed Frame as its caller sees it: the payload, the value read
\* from it and the warnings emitted on the way.
Constructed(header, chip_coord, core_coord, r, payload, warned) ==
    Ok([payload |-> payload, warnings |-> warned,
        value |-> FrameValue([header |-> header, chip_coord |-> chip_coord,
                              core_coord |-> core_coord, rid |-> r,
                              payload |-> payload])])

\* _RandomSeedFrame.__init__ without the range test.
RandomSeedFrameSilent(header, a) ==
    Constructed(header, a.chip_coord, a.core_coord, a.rid,
                RandomSeedSplit(a.random_seed), <<>>)

\* _RandomSeedFrame.__init__
RandomSeedFrame(header, a) ==
    LET warned == IF WideGt(a.random_seed, GENERAL_MASK)
                  THEN <<"TruncationWarning">> ELSE <<>>
    IN  Constructed(header, a.chip_coord, a.core_coord, a.rid,
                    RandomSeedSplit(a.random_seed), warned)

\* OfflineWorkFrame2.__init__
WorkFrame2(a) ==
    LET warned == IF WideGt(Wide(a.n_sync), GENERAL_PAYLOAD_MASK)
                  THEN <<"TruncationWarning">> ELSE <<>>
    IN  Constructed(WORK_TYPE2, a.chip_coord, [x |-> 0, y |-> 0], [x |-> 0, y |-> 0],
                    <<Uint64(WideAnd(Wide(a.n_sync), GENERAL_PAYLOAD_MASK))>>, warned)

----------------------------------------------------------------------------
(* SpecSeed: one random-seed frame or sync frame is constructed.           *)

\* Seeds: four low bits, two groups of thirty bits and up to MaxExcess bits
\* above bit 63.
MaxExcess == 2

SeedLow == {IntBits(v, 4) : v \in {0, 5, 15}}

SeedGroups ==
    {IntBits(v, GENERAL_PAYLOAD_LENGTH) : v \in {0, 1, 715827882, 1073741823}}

SeedExcess == UNION {[1..n -> {0, 1}] : n \in 0..MaxExcess}

Seeds ==
    {lo \o mid \o hi \o ex :
        lo \in SeedLow, mid \in SeedGroups, hi \in SeedGroups, ex \in SeedExcess}
        \cup {Wide(123456789)}

SyncCounts == {0, 10, 1073741823, 1073741824, 1073741831, 2147483647}

SeedArgs ==
    {Place(pl, r) : pl \in PackagePlaces,
        r \in [cls : {"OfflineConfigFrame1", "OfflineTestOutFrame1"},
               random_seed : Seeds]}

SyncArgs ==
    [cls : {"OfflineWorkFrame2"}, chip_coord : FrameChips, n_sync : SyncCounts]

InitSeed ==
    /\ COORD_Y_PRIORITY \in BOOLEAN
    /\ pc = "start"
    /\ coord = None /\ offset = None
    /\ addr = -1 /\ decoded = None
    /\ sum = None /\ diff = None /\ back = None
    /\ last = None /\ nops = 0
    /\ coords = <<>> /\ rid = None /\ ridOut = None /\ cores = None
    /\ args \in SeedArgs \cup SyncArgs
    /\ frame = None

\* OfflineConfigFrame1(...) / OfflineTestOutFrame1(...)
NewRandomSeedFrame ==
    /\ pc = "start"
    /\ args.cls \in {"OfflineConfigFrame1", "OfflineTestOutFrame1"}
    /\ Built(RandomSeedFrame(IF args.cls = "OfflineConfigFrame1"
                             THEN CONFIG_TYPE1 ELSE TEST_TYPE1, args))

\* OfflineWorkFrame2(...)
NewWorkFrame2 ==
    /\ pc = "start"
    /\ args.cls = "OfflineWorkFrame2"
    /\ Built(WorkFrame2(args))

NextSeed ==
    \/ NewRandomSeedFrame
    \/ NewWorkFrame2

SpecSeed == InitSeed /\ [][NextSeed]_vars

\* Bit k (from 0) of a wide integer.
BitAt(s, k) == IF k + 1 <= Len(s) THEN s[k + 1] ELSE 0

RECURSIVE Trim(_)
\* A wide integer without its leading zero bits.
Trim(s) == IF s # <<>> /\ s[Len(s)] = 0 THEN Trim(SubSeq(s, 1, Len(s) - 1)) ELSE s

IsSeedFrame == pc = "built" /\ args.cls \in {"OfflineConfigFrame1", "OfflineTestOutFrame1"}

\* The three payload words hold bits 63..34, 33..4 and 3..0 of the seed, the
\* last in bits 29..26, and nothing at or above bit 30.
SeedWords(w, s) ==
    /\ Len(w) = 3
    /\ \A i \in 1..3 : Len(w[i]) = FRAME_LENGTH /\ \A k \in 30..63 : BitAt(w[i], k) = 0
    /\ \A k \in 0..29 : BitAt(w[1], k) = BitAt(s, k + 34)
    /\ \A k \in 0..29 : BitAt(w[2], k) = BitAt(s, k + 4)
    /\ \A k \in 0..25 : BitAt(w[3], k) = 0
    /\ \A k \in 26..29 : BitAt(w[3], k) = BitAt(s, k - 26)

\* C15: for a seed s below 2^64 the payload words are (s >> 34) mod 2^30,
\* (s >> 4) mod 2^30 and (s mod 16) * 2^26, each below 2^30, and
\* w1 * 2^34 + w2 * 2^4 + (w3 >> 26) is s again.
C15_SeedSplit ==
    (IsSeedFrame /\ Len(Trim(args.random_seed)) <= FRAME_LENGTH) =>
        /\ frame.raised = "none"
        /\ SeedWords(frame.val.payload, args.random_seed)
        /\ LET w == frame.val.payload
           IN  Trim(WideAdd(WideAdd(WideShiftL(Trim(w[1]), 34), WideShiftL(Trim(w[2]), 4)),
                            WideShiftR(w[3], 26)))
                   = Trim(args.random_seed)
        /\ \A i \in 1..3 : \A k \in 0..29 :
               BitAt(frame.val.value[i], k) = BitAt(frame.val.payload[i], k)

C15_Witness ==
    /\ IsSeedFrame
    /\ frame.raised = "none"
    /\ args.random_seed = Wide(123456789)
    /\ Field(frame.val.payload[1], 0, 30) = 0
    /\ Field(frame.val.payload[2], 0, 30) = 7716049
    /\ Field(frame.val.payload[3], 0, 30) = 335544320

\* C16: a seed of 2^64 or more and a sync count of 2^30 or more construct
\* their frame all the same, emit one TruncationWarning and give the
\* payload of the value modulo 2^64, respectively 2^30; smaller values give
\* no warning.
C16_Truncation ==
    /\ IsSeedFrame =>
        /\ frame.raised = "none"
        /\ frame.val.warnings =
              IF Len(Trim(args.random_seed)) > FRAME_LENGTH
              THEN <<"TruncationWarning">> ELSE <<>>
        /\ SeedWords(frame.val.payload,
                     SubSeq(args.random_seed, 1, Min(FRAME_LENGTH, Len(args.random_seed))))
    /\ (pc = "built" /\ args.cls = "OfflineWorkFrame2") =>
        /\ frame.raised = "none"
        /\ frame.val.warnings =
              IF args.n_sync >= 1073741824 THEN <<"TruncationWarning">> ELSE <<>>
        /\ Len(frame.val.value) = 1
        /\ Field(frame.val.value[1], 0, 30) = args.n_sync % 1073741824
        /\ Field(frame.val.value[1], 30, 30) = Address(args.chip_coord) * 1048576
        /\ Field(frame.val.value[1], 60, 4) = WORK_TYPE2

C16_Witness ==
    /\ IsSeedFrame
    /\ frame.raised = "none"
    /\ Len(args.random_seed) = FRAME_LENGTH + MaxExcess
    /\ args.random_seed[FRAME_LENGTH + MaxExcess] = 1
    /\ args.random_seed[1] = 1
    /\ frame.val.warnings = <<"TruncationWarning">>
    /\ Field(frame.val.payload[3], 26, 4) = 5

----------------------------------------------------------------------------
(* Register frames (framelib/frames.py, OfflineConfigFrame2Format).        *)

WEIGHT_WIDTH_OFFSET == 28
WEIGHT_WIDTH_MASK == Mask(2)
LCN_OFFSET == 24
LCN_MASK == Mask(4)
INPUT_WIDTH_OFFSET == 23
INPUT_WIDTH_MASK == Wide(1)
SPIKE_WIDTH_OFFSET == 22
SPIKE_WIDTH_MASK == Wide(1)
NUM_VALID_DENDRITE_OFFSET == 9
NUM_VALID_DENDRITE_MASK == Mask(13)
POOL_MAX_OFFSET == 8
POOL_MAX_MASK == Mask(1)
TICK_WAIT_START_HIGH8_OFFSET == 0
TICK_WAIT_START_HIGH8_MASK == Mask(8)
TICK_WAIT_START_LOW7_OFFSET == 23
TICK_WAIT_START_LOW7_MASK == Mask(7)
TICK_WAIT_END_OFFSET == 8
TICK_WAIT_END_MASK == Mask(15)
SNN_EN_OFFSET == 7
SNN_EN_MASK == Mask(1)
TARGET_LCN_OFFSET == 3
TARGET_LCN_MASK == Mask(4)
TEST_CHIP_ADDR_HIGH3_OFFSET == 0
TEST_CHIP_ADDR_HIGH3_MASK == Mask(3)
\* The class body assigns this name twice, 7 and then 23; the last one stays.
TEST_CHIP_ADDR_LOW7_OFFSET == 23
TEST_CHIP_ADDR_LOW7_MASK == Mask(7)

\* get_core_mode: the two combinations with 8-bit input and SNN mode are
\* no CoreMode.
GetCoreMode(input_width, spike_width, snn_mode) ==
    IF input_width = 1 /\ snn_mode = 1 THEN Raise("ValueError")
    ELSE Ok(<<input_width, spike_width, snn_mode>>)

\* _CoreRegFrame._payload_reorganized under core_mode_check, on a
\* validated mapping of ints.
PayloadReorganized(reg_dict) ==
    IF GetCoreMode(reg_dict.input_width, reg_dict.spike_width,
                   reg_dict.snn_en).raised # "none"
    THEN Raise("ValueError")
    ELSE
    LET tws == BinSplit(Wide(reg_dict.tick_wait_start), 7, 8)
        tca == BinSplit(Wide(reg_dict.test_chip_addr), 7, 3)
        reg_frame1 == WideOrAll(<<
            Packed(Wide(reg_dict.weight_width), WEIGHT_WIDTH_MASK, WEIGHT_WIDTH_OFFSET),
            Packed(Wide(reg_dict.LCN), LCN_MASK, LCN_OFFSET),
            Packed(Wide(reg_dict.input_width), INPUT_WIDTH_MASK, INPUT_WIDTH_OFFSET),
            Packed(Wide(reg_dict.spike_width), SPIKE_WIDTH_MASK, SPIKE_WIDTH_OFFSET),
            Packed(Wide(reg_dict.num_dendrite), NUM_VALID_DENDRITE_MASK,
                   NUM_VALID_DENDRITE_OFFSET),
            Packed(Wide(reg_dict.pool_max), POOL_MAX_MASK, POOL_MAX_OFFSET),
            Packed(tws.high, TICK_WAIT_START_HIGH8_MASK, TICK_WAIT_START_HIGH8_OFFSET) >>)
        reg_frame2 == WideOrAll(<<
            Packed(tws.low, TICK_WAIT_START_LOW7_MASK, TICK_WAIT_START_LOW7_OFFSET),
            Packed(Wide(reg_dict.tick_wait_end), TICK_WAIT_END_MASK, TICK_WAIT_END_OFFSET),
            Packed(Wide(reg_dict.snn_en), SNN_EN_MASK, SNN_EN_OFFSET),
            Packed(Wide(reg_dict.target_LCN), TARGET_LCN_MASK, TARGET_LCN_OFFSET),
            Packed(tca.high, TEST_CHIP_ADDR_HIGH3_MASK, TEST_CHIP_ADDR_HIGH3_OFFSET) >>)
        reg_frame3 == Packed(tca.low, TEST_CHIP_ADDR_LOW7_MASK, TEST_CHIP_ADDR_LOW7_OFFSET)
    IN  Ok(<<Uint64(reg_frame1), Uint64(reg_frame2), Uint64(reg_frame3)>>)

\* _CoreRegFrame.__init__
CoreRegFrame(header, a) ==
    LET payload == PayloadReorganized(a.params_reg_dict)
    IN  IF payload.raised # "none" THEN payload
        ELSE Constructed(header, a.chip_coord, a.core_coord, a.rid, payload.val, <<>>)

----------------------------------------------------------------------------
(* SpecReg: one register frame is constructed from a validated mapping.    *)

RegDicts ==
    [weight_width : {1, 3}, LCN : {0, 6}, input_width : {0, 1}, spike_width : {0, 1},
     num_dendrite : {5461, 8191}, pool_max : {0, 1},
     tick_wait_start : {127, 128, 21845, 32767},
     tick_wait_end : {10922, 32767}, snn_en : {0, 1}, target_LCN : {1, 6},
     test_chip_addr : {127, 128, 682, 1023}]

RegArgs ==
    [cls : {"OfflineConfigFrame2", "OfflineTestOutFrame2"},
     chip_coord : {[x |-> 1, y |-> 2]}, core_coord : {[x |-> 1, y |-> 5]},
     rid : {[x |-> 2, y |-> 2]}, params_reg_dict : RegDicts]

InitReg ==
    /\ COORD_Y_PRIORITY = TRUE
    /\ pc = "start"
    /\ coord = None /\ offset = None
    /\ addr = -1 /\ decoded = None
    /\ sum = None /\ diff = None /\ back = None
    /\ last = None /\ nops = 0
    /\ coords = <<>> /\ rid = None /\ ridOut = None /\ cores = None
    /\ args \in RegArgs
    /\ frame = None

\* OfflineConfigFrame2(...) / OfflineTestOutFrame2(...)
NewCoreRegFrame ==
    /\ pc = "start"
    /\ Built(CoreRegFrame(IF args.cls = "OfflineConfigFrame2"
                          THEN CONFIG_TYPE2 ELSE TEST_TYPE2, args))

NextReg == NewCoreRegFrame

SpecReg == InitReg /\ [][NextReg]_vars

\* C17: a register frame has three payload words below 2^30.
\* tick_wait_start is cut at bit 7, the high 8 bits in bits 7..0 of word 1
\* and the low 7 bits in bits 29..23 of word 2; test_chip_addr is cut at
\* bit 7, the high 3 bits in bits 2..0 of word 2 and the low 7 bits in bits
\* 29..23 of word 3; every field is read back from its own bits.
C17_RegisterLayout ==
    (pc = "built" /\ frame.raised = "none") =>
        LET w == frame.val.payload
            r == args.params_reg_dict
        IN  /\ Len(w) = 3 /\ Len(frame.val.value) = 3
            /\ \A i \in 1..3 : \A k \in 30..63 : BitAt(w[i], k) = 0
            /\ Field(w[1], 28, 2) = r.weight_width
            /\ Field(w[1], 24, 4) = r.LCN
            /\ Field(w[1], 23, 1) = r.input_width
            /\ Field(w[1], 22, 1) = r.spike_width
            /\ Field(w[1], 9, 13) = r.num_dendrite
            /\ Field(w[1], 8, 1) = r.pool_max
            /\ Field(w[1], 0, 8) = r.tick_wait_start \div 128
            /\ Field(w[2], 23, 7) = r.tick_wait_start % 128
            /\ Field(w[2], 8, 15) = r.tick_wait_end
            /\ Field(w[2], 7, 1) = r.snn_en
            /\ Field(w[2], 3, 4) = r.target_LCN
            /\ Field(w[2], 0, 3) = r.test_chip_addr \div 128
            /\ Field(w[3], 23, 7) = r.test_chip_addr % 128
            /\ Field(w[3], 0, 23) = 0
            /\ \A i \in 1..3 : Field(frame.val.value[i], 0, 30) = Field(w[i], 0, 30)

C17_Witness ==
    /\ pc = "built"
    /\ frame.raised = "none"
    /\ args.params_reg_dict.tick_wait_start = 21845
    /\ args.params_reg_dict.test_chip_addr = 682
    /\ Field(frame.val.payload[1], 0, 8) = 170
    /\ Field(frame.val.payload[2], 23, 7) = 85
    /\ Field(frame.val.payload[2], 0, 3) = 5
    /\ Field(frame.val.payload[3], 23, 7) = 42

----------------------------------------------------------------------------
(* framelib/frames.py: OfflineWorkFrame1, the spike frame, and             *)
(* frame_defs.py: OfflineWorkFrame1Format.                                  *)

AXON_OFFSET == 16
AXON_MASK == Mask(11)
TIMESLOT_OFFSET == 8
TIMESLOT_MASK == Mask(8)
DATA_OFFSET == 0
DATA_MASK == Mask(8)

N_FANIN_PER_DENDRITE_MAX == 1152
ADDR_AXON_MAX == N_FANIN_PER_DENDRITE_MAX - 1

\* np.iinfo(np.int8).min, np.iinfo(np.int8).max
INT8_MIN == -128
INT8_MAX == 127

\* The data argument: an int ([scalar |-> v]) or a uint8 array
\* ([array |-> <<...>>]).
IsArray(data) == "array" \in DOMAIN data

\* The one value of a scalar or of an array of size 1.
DataValue(data) == IF IsArray(data) THEN data.array[1] ELSE data.scalar

\* PAYLOAD_DATA_DTYPE(data): the signed byte kept in self.data.
PAYLOAD_DATA_DTYPE(data) == ((data - INT8_MIN) % 256) + INT8_MIN

\* OfflineWorkFrame1.__init__ without the range test on axon.
WorkFrame1AxonMasked(a) ==
    IF a.timeslot > BitsInt(TIMESLOT_MASK) \/ a.timeslot < 0
    THEN Raise("ValueError")
    ELSE IF IsArray(a.data) /\ Len(a.data.array) # 1
    THEN Raise("ShapeError")
    ELSE LET data == DataValue(a.data)
         IN  IF data < INT8_MIN \/ data > INT8_MAX
             THEN Raise("ValueError")
             ELSE LET payload == Uint64(WideOrAll(
                          <<Packed(Wide(a.axon), AXON_MASK, AXON_OFFSET),
                            Packed(Wide(a.timeslot), TIMESLOT_MASK, TIMESLOT_OFFSET),
                            Packed(Wide(data), DATA_MASK, DATA_OFFSET)>>))
                      built == Constructed(WORK_TYPE1, a.chip_coord, a.core_coord,
                                           a.rid, <<payload>>, <<>>)
                  IN  Ok([data |-> PAYLOAD_DATA_DTYPE(data),
                          payload |-> built.val.payload,
                          warnings |-> built.val.warnings,
                          value |-> built.val.value])

\* OfflineWorkFrame1.__init__: timeslot, axon, the size of data and the
\* value of data are tested in this order, before anything is masked.  The
\* & of a negative int with a mask reads its two's complement, which is
\* what Wide gives (IntBits divides with floor and takes a non-negative
\* remainder).
WorkFrame1(a) ==
    IF a.timeslot > BitsInt(TIMESLOT_MASK) \/ a.timeslot < 0
    THEN Raise("ValueError")
    ELSE IF a.axon > ADDR_AXON_MAX \/ a.axon < 0
    THEN Raise("ValueError")
    ELSE IF IsArray(a.data) /\ Len(a.data.array) # 1
    THEN Raise("ShapeError")
    ELSE LET data == DataValue(a.data)
         IN  IF data < INT8_MIN \/ data > INT8_MAX
             THEN Raise("ValueError")
             ELSE LET payload == Uint64(WideOrAll(
                          <<Packed(Wide(a.axon), AXON_MASK, AXON_OFFSET),
                            Packed(Wide(a.timeslot), TIMESLOT_MASK, TIMESLOT_OFFSET),
                            Packed(Wide(data), DATA_MASK, DATA_OFFSET)>>))
                      built == Constructed(WORK_TYPE1, a.chip_coord, a.core_coord,
                                           a.rid, <<payload>>, <<>>)
                  IN  Ok([data |-> PAYLOAD_DATA_DTYPE(data),
                          payload |-> built.val.payload,
                          warnings |-> built.val.warnings,
                          value |-> built.val.value])

\* The head of concat_frame_dest without the replication address.
ConcatCommonHeadNoRid(chip_coord, core_coord, r) ==
    LET header == WideAnd(Wide(WORK_TYPE1), GENERAL_HEADER_MASK)
        chip_addr == WideAnd(Wide(Address(chip_coord)), GENERAL_CHIP_ADDR_MASK)
        core_addr == WideAnd(Wide(Address(core_coord)), GENERAL_CORE_ADDR_MASK)
    IN  WideAdd(WideAdd(WideShiftL(header, GENERAL_HEADER_OFFSET),
                        WideShiftL(chip_addr, GENERAL_CHIP_ADDR_OFFSET)),
                WideShiftL(core_addr, GENERAL_CORE_ADDR_OFFSET))

\* The head common to the words of concat_frame_dest.
ConcatCommonHead(chip_coord, core_coord, r) ==
    LET header == WideAnd(Wide(WORK_TYPE1), GENERAL_HEADER_MASK)
        chip_addr == WideAnd(Wide(Address(chip_coord)), GENERAL_CHIP_ADDR_MASK)
        core_addr == WideAnd(Wide(Address(core_coord)), GENERAL_CORE_ADDR_MASK)
        rid_addr == WideAnd(Wide(Address(r)), GENERAL_CORE_EX_ADDR_MASK)
    IN  WideAdd(WideAdd(WideAdd(WideShiftL(header, GENERAL_HEADER_OFFSET),
                                WideShiftL(chip_addr, GENERAL_CHIP_ADDR_OFFSET)),
                        WideShiftL(core_addr, GENERAL_CORE_ADDR_OFFSET)),
                WideShiftL(rid_addr, GENERAL_CORE_EX_ADDR_OFFSET))

\* OfflineWorkFrame1.concat_frame_dest: the only test is on the two sizes;
\* every axon and timeslot is masked to its field.
ConcatFrameDest(a) ==
    LET _axons == a.axons
        _timeslots == IF a.timeslots = None
                      THEN [i \in 1..Len(_axons) |-> 0]
                      ELSE a.timeslots.some
    IN  IF Len(_axons) # Len(_timeslots)
        THEN Raise("ValueError")
        ELSE LET common_head == ConcatCommonHead(a.chip_coord, a.core_coord, a.rid)
                 common_payload ==
                     [i \in 1..Len(_axons) |->
                         WideOr(Packed(Wide(_axons[i]), AXON_MASK, AXON_OFFSET),
                                Packed(Wide(_timeslots[i]), TIMESLOT_MASK,
                                       TIMESLOT_OFFSET))]
             IN  Ok([i \in 1..Len(_axons) |->
                        Uint64(WideAdd(common_head, common_payload[i]))])

RECURSIVE Nonzero(_, _)
\* np.nonzero(data): the indexes of the non-zero entries from index i on,
\* in increasing order.
Nonzero(data, i) ==
    IF i > Len(data) THEN <<>>
    ELSE IF data[i] # 0 THEN <<i>> \o Nonzero(data, i + 1)
    ELSE Nonzero(data, i + 1)

\* OfflineWorkFrame1._gen_frame_fast with every index kept.
GenFrameFastDense(frame_dest_info, data) ==
    [k \in 1..Len(data) |-> Uint64(WideAdd(frame_dest_info[k], Wide(data[k])))]

\* OfflineWorkFrame1._gen_frame_fast
GenFrameFast(frame_dest_info, data) ==
    LET indexes == Nonzero(data, 1)
    IN  [k \in 1..Len(indexes) |->
            Uint64(WideAdd(frame_dest_info[indexes[k]], Wide(data[indexes[k]])))]

\* OfflineFrameGen.gen_work_frame1_fast
GenWorkFrame1Fast(a) ==
    IF Len(a.frame_dest_info) # Len(a.data)
    THEN Raise("ValueError")
    ELSE Ok(GenFrameFast(a.frame_dest_info, a.data))

----------------------------------------------------------------------------
(* SpecSpike: one spike frame is constructed, or the destinations of a     *)
(* batch of spikes are encoded, or a batch of data is added to encoded     *)
(* destinations.                                                           *)

MaxEvents == 2
MaxSpikes == 3

RECURSIVE SeqsUpTo(_, _)
\* The sequences over S of length at most n.
SeqsUpTo(S, n) ==
    IF n = 0 THEN {<<>>}
    ELSE LET shorter == SeqsUpTo(S, n - 1)
         IN  shorter \cup {Append(s, x) : s \in {t \in shorter : Len(t) = n - 1}, x \in S}

SpikeTimeslots == {-1, 0, 1, 170, 255, 256}
SpikeAxons == {-1, 0, 1, 1151, 1152, 1365, 2047, 2048}
SpikeData ==
    {[scalar |-> v] : v \in {-129, -128, -86, -1, 0, 1, 127, 128, 1023}}
        \cup {[array |-> s] : s \in {<<>>, <<5>>, <<200>>, <<1, 2>>}}

WorkFrame1Args ==
    [cls : {"OfflineWorkFrame1"}, chip_coord : {[x |-> 1, y |-> 2]},
     core_coord : {[x |-> 3, y |-> 4], [x |-> 31, y |-> 0]},
     rid : {[x |-> 3, y |-> 3]},
     timeslot : SpikeTimeslots, axon : SpikeAxons, data : SpikeData]

ConcatArgs ==
    [cls : {"concat_frame_dest"}, chip_coord : {[x |-> 1, y |-> 2]},
     core_coord : {[x |-> 3, y |-> 4], [x |-> 31, y |-> 0]},
     rid : {[x |-> 3, y |-> 3]},
     axons : SeqsUpTo({0, 1151, 1152, 1365, 2048}, MaxEvents),
     timeslots : {None} \cup {Some(s) : s \in SeqsUpTo({0, 170, 255, 256}, MaxEvents)}]

\* An encoded destination for axon j - 1 at timeslot 0 of the core at
\* address 124 of chip 33, replication id 1, with low added in the data
\* byte.
DestWord(j, low) ==
    Uint64(WideOrAll(<<WideShiftL(Wide(WORK_TYPE1), GENERAL_HEADER_OFFSET),
                       WideShiftL(Wide(33), GENERAL_CHIP_ADDR_OFFSET),
                       WideShiftL(Wide(124), GENERAL_CORE_ADDR_OFFSET),
                       WideShiftL(Wide(1), GENERAL_CORE_EX_ADDR_OFFSET),
                       Packed(Wide(j - 1), AXON_MASK, AXON_OFFSET),
                       Wide(low)>>))

\* Encoded destinations for axons 0, 1, ..., and the same with every bit
\* of the data byte set already.
DestInfos == {[i \in 1..n |-> DestWord(i, low)] : n \in 0..MaxSpikes, low \in {0, 255}}

FastArgs ==
    [cls : {"gen_work_frame1_fast"}, frame_dest_info : DestInfos,
     data : SeqsUpTo({0, 1, 255}, MaxSpikes)]

InitSpike ==
    /\ COORD_Y_PRIORITY = TRUE
    /\ pc = "start"
    /\ coord = None /\ offset = None
    /\ addr = -1 /\ decoded = None
    /\ sum = None /\ diff = None /\ back = None
    /\ last = None /\ nops = 0
    /\ coords = <<>> /\ rid = None /\ ridOut = None /\ cores = None
    /\ args \in WorkFrame1Args \cup ConcatArgs \cup FastArgs
    /\ frame = None

\* OfflineWorkFrame1(chip_coord, core_coord, rid, timeslot, axon, data)
NewWorkFrame1 ==
    /\ pc = "start"
    /\ args.cls = "OfflineWorkFrame1"
    /\ Built(WorkFrame1(args))

\* OfflineWorkFrame1.concat_frame_dest(chip_coord, core_coord, rid, axons, timeslots)
CallConcatFrameDest ==
    /\ pc = "start"
    /\ args.cls = "concat_frame_dest"
    /\ Built(ConcatFrameDest(args))

\* OfflineFrameGen.gen_work_frame1_fast(frame_dest_info, data)
CallGenWorkFrame1Fast ==
    /\ pc = "start"
    /\ args.cls = "gen_work_frame1_fast"
    /\ Built(GenWorkFrame1Fast(args))

NextSpike == NewWorkFrame1 \/ CallConcatFrameDest \/ CallGenWorkFrame1Fast

SpecSpike == InitSpike /\ [][NextSpike]_vars

IsSpikeFrame == pc = "built" /\ args.cls = "OfflineWorkFrame1"

\* C18: OfflineWorkFrame1(chip, core, rid, timeslot, axon, data) succeeds
\* exactly when 0 <= timeslot <= 255, 0 <= axon <= 1151 and data is a
\* single value with -128 <= data <= 127; otherwise it raises and there is
\* no frame.  On success the payload is one word,
\* axon * 2^16 + timeslot * 2^8 + (data mod 256), with bits 29..27 zero.
C18_SpikeFrame ==
    IsSpikeFrame =>
        LET single == ~IsArray(args.data) \/ Len(args.data.array) = 1
            legal == /\ 0 <= args.timeslot /\ args.timeslot <= 255
                     /\ 0 <= args.axon /\ args.axon <= 1151
                     /\ single
                     /\ -128 <= DataValue(args.data) /\ DataValue(args.data) <= 127
        IN  /\ (frame.raised = "none") <=> legal
            /\ frame.raised # "none" => DOMAIN frame = {"raised"}
            /\ frame.raised = "none" =>
                   /\ Len(frame.val.payload) = 1
                   /\ Field(frame.val.payload[1], 0, 30) =
                          args.axon * 65536 + args.timeslot * 256
                              + (DataValue(args.data) % 256)
                   /\ \A k \in 30..63 : BitAt(frame.val.payload[1], k) = 0
                   /\ Field(frame.val.payload[1], 27, 3) = 0
                   /\ Len(frame.val.value) = 1
                   /\ Field(frame.val.value[1], 0, 30) =
                          Field(frame.val.payload[1], 0, 30)

C18_Witness ==
    /\ IsSpikeFrame
    /\ frame.raised = "none"
    /\ args.axon = 1151 /\ args.timeslot = 255
    /\ args.data = [scalar |-> -86]
    /\ Field(frame.val.payload[1], 0, 30) = 1151 * 65536 + 255 * 256 + 170

IsConcat == pc = "built" /\ args.cls = "concat_frame_dest"

\* C19: concat_frame_dest treats axon and timeslot as hard limits: when an
\* axon is outside 0..1151 or a timeslot is outside 0..255 it raises and
\* returns no words.
C19_HardLimits ==
    IsConcat =>
        LET out_of_range ==
                \/ \E i \in 1..Len(args.axons) :
                       args.axons[i] < 0 \/ args.axons[i] > 1151
                \/ /\ args.timeslots # None
                   /\ \E i \in 1..Len(args.timeslots.some) :
                          args.timeslots.some[i] < 0 \/ args.timeslots.some[i] > 255
        IN  out_of_range => frame.raised # "none"

IsFast == pc = "built" /\ args.cls = "gen_work_frame1_fast"

RECURSIVE CountNonzero(_)
\* The number of non-zero entries of data.
CountNonzero(data) ==
    IF data = <<>> THEN 0
    ELSE (IF Head(data) # 0 THEN 1 ELSE 0) + CountNonzero(Tail(data))

RECURSIVE CarryInto(_, _, _)
\* What the sum of the word w and the byte d brings into the 16 bits from
\* bit 16 * c on: d itself for c = 0, else the carry out of the 16 bits
\* below.
CarryInto(w, d, c) ==
    IF c = 0 THEN d
    ELSE (Field(w, 16 * (c - 1), 16) + CarryInto(w, d, c - 1)) \div 65536

\* C20: gen_work_frame1_fast(frame_dest_info, data) raises ValueError when
\* the two arrays differ in size; otherwise it returns, in increasing index
\* order, one word frame_dest_info[i] + data[i] for every index i with
\* data[i] # 0 and no word for an index with data[i] = 0, so the output has
\* as many words as data has non-zero entries.
C20_SparseEncoding ==
    IsFast =>
        IF Len(args.frame_dest_info) # Len(args.data)
        THEN frame = Raise("ValueError")
        ELSE /\ frame.raised = "none"
             /\ Len(frame.val) = CountNonzero(args.data)
             /\ \A i \in 1..Len(args.data) :
                    LET k == CountNonzero(SubSeq(args.data, 1, i))
                    IN  args.data[i] # 0 =>
                            \A c \in 0..3 :
                                Field(frame.val[k], 16 * c, 16) =
                                    (Field(args.frame_dest_info[i], 16 * c, 16)
                                         + CarryInto(args.frame_dest_info[i],
                                                     args.data[i], c)) % 65536

C20_Witness ==
    /\ IsFast
    /\ frame.raised = "none"
    /\ Len(args.data) = MaxSpikes
    /\ args.data[1] = 0 /\ args.data[2] = 255 /\ args.data[MaxSpikes] = 1
    /\ Len(frame.val) = MaxSpikes - 1
    /\ Field(frame.val[1], 0, 8) = 255
    /\ Field(frame.val[1], 16, 11) = 1
    /\ Field(frame.val[MaxSpikes - 1], 16, 11) = MaxSpikes - 1

----------------------------------------------------------------------------
(* routing_defs.py: RoutingCost and get_routing_consumption.               *)

N_ROUTING_LEVEL == 6
N_SUB_ROUTING_NODE == 4

RECURSIVE BitLength(_)
\* int.bit_length(): the bits of the absolute value.
BitLength(v) ==
    IF v = 0 THEN 0
    ELSE 1 + BitLength((IF v < 0 THEN -v ELSE v) \div 2)

RECURSIVE ConsumptionLevelsHalved(_, _)
\* The loop of get_routing_consumption with two sub-nodes per node.
ConsumptionLevelsHalved(n_Lx, i) ==
    IF i >= N_ROUTING_LEVEL - 1 THEN n_Lx
    ELSE ConsumptionLevelsHalved(
             Append(n_Lx, IF n_Lx[i + 1] < 2 THEN 1 ELSE n_Lx[i + 1] \div 2),
             i + 1)

RECURSIVE ConsumptionLevels(_, _)
\* The loop of get_routing_consumption from index i on: n_Lx[1 + i] is 1
\* when n_Lx[i] is below n_sub_node, else n_Lx[i] // n_sub_node.
ConsumptionLevels(n_Lx, i) ==
    IF i >= N_ROUTING_LEVEL - 1 THEN n_Lx
    ELSE ConsumptionLevels(
             Append(n_Lx, IF n_Lx[i + 1] < N_SUB_ROUTING_NODE THEN 1
                          ELSE n_Lx[i + 1] \div N_SUB_ROUTING_NODE),
             i + 1)

\* get_routing_consumption with n_Lx[0] = 1 << n_core.bit_length().
GetRoutingConsumptionNextPower(n_core) ==
    ConsumptionLevels(<<ShiftL(1, BitLength(n_core))>>, 0)

\* get_routing_consumption: a RoutingCost is the sequence of n_L0 .. n_L5.
GetRoutingConsumption(n_core) ==
    ConsumptionLevels(<<ShiftL(1, BitLength(n_core - 1))>>, 0)

RECURSIVE LevelScan(_, _)
\* The loop of get_routing_level from index i downwards (i counts from 0).
LevelScan(cost, i) ==
    IF i < 0 THEN 1
    ELSE IF cost[i + 1] > 1 THEN i + 1
    ELSE LevelScan(cost, i - 1)

\* RoutingCost.get_routing_level without the test on n_L5.
GetRoutingLevelNoLimit(cost) == Ok(LevelScan(cost, Len(cost) - 1))

\* RoutingCost.get_routing_level
GetRoutingLevel(cost) ==
    IF cost[6] > 1 THEN Raise("ValueError")
    ELSE Ok(LevelScan(cost, Len(cost) - 1))

----------------------------------------------------------------------------
(* SpecCost: a caller asks for the routing consumption of a core count, or *)
(* builds a RoutingCost directly, and then asks for its routing level; or  *)
(* it asks for the consumption of two core counts.                         *)

MaxCore == 2060

CostEntries == {1, 2, 5}

PairCores == {0, 1, 2, 3, 4, 5, 16, 17, 64, 65, 1024, 1025, MaxCore}

CostArgs ==
    [cls : {"get_routing_consumption"}, n_core : 0..MaxCore]
        \cup [cls : {"RoutingCost"},
              cost : [1..N_ROUTING_LEVEL -> CostEntries]]
        \cup [cls : {"compare"}, n_core : PairCores, m_core : PairCores]

InitCost ==
    /\ COORD_Y_PRIORITY = TRUE
    /\ pc = "start"
    /\ coord = None /\ offset = None
    /\ addr = -1 /\ decoded = None
    /\ sum = None /\ diff = None /\ back = None
    /\ last = None /\ nops = 0
    /\ coords = <<>> /\ rid = None /\ ridOut = None /\ cores = None
    /\ args \in CostArgs
    /\ frame = None

\* cost = get_routing_consumption(n_core)
CallGetRoutingConsumption ==
    /\ pc = "start"
    /\ args.cls = "get_routing_consumption"
    /\ Built([cost |-> GetRoutingConsumption(args.n_core)])

\* cost = RoutingCost(n_L0, n_L1, n_L2, n_L3, n_L4, n_L5)
NewRoutingCost ==
    /\ pc = "start"
    /\ args.cls = "RoutingCost"
    /\ Built([cost |-> args.cost])

\* cost.get_routing_level()
CallGetRoutingLevel ==
    /\ pc = "built"
    /\ args.cls \in {"get_routing_consumption", "RoutingCost"}
    /\ pc' = "level"
    /\ frame' = [cost |-> frame.cost, level |-> GetRoutingLevel(frame.cost)]
    /\ UNCHANGED <<args, COORD_Y_PRIORITY, coord, offset, addrVars, arithVars,
                   inplaceVars, routeVars>>

\* get_routing_consumption(n_core), get_routing_consumption(m_core)
CompareRoutingConsumption ==
    /\ pc = "start"
    /\ args.cls = "compare"
    /\ Built([first |-> GetRoutingConsumption(args.n_core),
              second |-> GetRoutingConsumption(args.m_core)])

NextCost ==
    \/ CallGetRoutingConsumption
    \/ NewRoutingCost
    \/ CallGetRoutingLevel
    \/ CompareRoutingConsumption

SpecCost == InitCost /\ [][NextCost]_vars

RECURSIVE IsPowerOfTwo(_)
IsPowerOfTwo(v) == v = 1 \/ (v > 1 /\ v % 2 = 0 /\ IsPowerOfTwo(v \div 2))

HasConsumption ==
    pc \in {"built", "level"} /\ args.cls = "get_routing_consumption"

\* C21: for n >= 1, get_routing_consumption(n) has n_L0 the smallest power
\* of two >= n and n_L(k+1) = max(1, n_Lk div 4) for k = 0..4;
\* get_routing_consumption(65) is RoutingCost(128, 32, 8, 2, 1), n_L5 = 1.
C21_RoutingConsumption ==
    (HasConsumption /\ args.n_core >= 1) =>
        LET c == frame.cost
        IN  /\ Len(c) = 6
            /\ IsPowerOfTwo(c[1])
            /\ c[1] >= args.n_core
            /\ \A p \in 1..(c[1] - 1) : IsPowerOfTwo(p) => p < args.n_core
            /\ \A k \in 1..5 :
                   c[k + 1] = (IF c[k] \div 4 >= 1 THEN c[k] \div 4 ELSE 1)
            /\ args.n_core = 65 => c = <<128, 32, 8, 2, 1, 1>>

C21_Witness ==
    /\ pc = "built"
    /\ args.cls = "get_routing_consumption"
    /\ args.n_core = 65
    /\ frame.cost = <<128, 32, 8, 2, 1, 1>>

\* C22: for non-negative n <= m, every level count of
\* get_routing_consumption(n) is <= that of get_routing_consumption(m).
C22_Monotone ==
    (pc = "built" /\ args.cls = "compare" /\ args.n_core <= args.m_core) =>
        \A k \in 1..6 : frame.first[k] <= frame.second[k]

\* What C22 says for core counts from 1 on.
C22_MonotonePositive ==
    (pc = "built" /\ args.cls = "compare" /\ 1 <= args.n_core
         /\ args.n_core <= args.m_core) =>
        \A k \in 1..6 : frame.first[k] <= frame.second[k]

HasLevel == pc = "level"

\* Every level from k up to L5 counts one node.
CollapsedFrom(c, k) == \A j \in k..5 : c[j + 1] = 1

\* C23 as stated: for a RoutingCost with positive entries,
\* get_routing_level() raises ValueError if n_L5 > 1 and otherwise returns
\* the smallest level k in 0..5 with n_Lj = 1 for every level j from k up.
C23_LevelFromL0 ==
    HasLevel =>
        LET c == frame.cost
        IN  IF c[6] > 1 THEN frame.level = Raise("ValueError")
            ELSE /\ frame.level.raised = "none"
                 /\ frame.level.val \in 0..5
                 /\ CollapsedFrom(c, frame.level.val)
                 /\ \A k \in 0..5 : CollapsedFrom(c, k) => frame.level.val <= k

\* C23, amended: for a RoutingCost with positive entries,
\* get_routing_level() raises ValueError if n_L5 > 1 and otherwise returns
\* the smallest level k in 1..5 with n_Lj = 1 for every level j from k up;
\* a cost of all ones has level L1, never L0.
C23_Level ==
    HasLevel =>
        LET c == frame.cost
        IN  IF c[6] > 1 THEN frame.level = Raise("ValueError")
            ELSE /\ frame.level.raised = "none"
                 /\ frame.level.val \in 1..5
                 /\ CollapsedFrom(c, frame.level.val)
                 /\ \A k \in 1..5 : CollapsedFrom(c, k) => frame.level.val <= k

C23_Witness ==
    /\ HasLevel
    /\ args.cls = "RoutingCost"
    /\ frame.cost = <<1, 1, 1, 1, 1, 1>>
    /\ frame.level = Ok(1)

\* C24: for 1 <= n <= 1024, get_routing_consumption(n).get_routing_level()
\* returns the level k >= 1 that is the smallest with 4^k >= n_L0 (L1 up to
\* 4 cores, L2 up to 16, L3 up to 64, L4 up to 256, L5 up to 1024); for
\* n > 1024 it raises ValueError.
C24_LevelOfCoreCount ==
    (HasLevel /\ args.cls = "get_routing_consumption" /\ args.n_core >= 1) =>
        LET n == args.n_core
        IN  IF n > 1024 THEN frame.level = Raise("ValueError")
            ELSE /\ frame.level.raised = "none"
                 /\ frame.level.val \in 1..5
                 /\ 4 ^ frame.level.val >= frame.cost[1]
                 /\ \A k \in 1..5 : 4 ^ k >= frame.cost[1] => frame.level.val <= k
                 /\ frame.level.val =
                        (IF n <= 4 THEN 1 ELSE IF n <= 16 THEN 2
                         ELSE IF n <= 64 THEN 3 ELSE IF n <= 256 THEN 4 ELSE 5)

C24_Witness ==
    /\ HasLevel
    /\ args.cls = "get_routing_consumption"
    /\ args.n_core = 1025
    /\ frame.cost = <<2048, 512, 128, 32, 8, 2>>
    /\ frame.level = Raise("ValueError")

----------------------------------------------------------------------------
(* routing_defs.py: RoutingDirection, RoutingCoord and RoutingPath.        *)

MAX_ROUTING_PATH_LENGTH == 5

\* RoutingDirection: the value (x, y) of each member.
X0Y0 == [x |-> 0, y |-> 0]
X0Y1 == [x |-> 0, y |-> 1]
X1Y0 == [x |-> 1, y |-> 0]
X1Y1 == [x |-> 1, y |-> 1]
ANY == [x |-> -1, y |-> -1]

Quadrants == {X0Y0, X0Y1, X1Y0, X1Y1}

\* RoutingDirection.to_index
ToIndex(d) ==
    IF d = ANY THEN Raise("TypeError")
    ELSE IF COORD_Y_PRIORITY THEN Ok(ShiftL(d.x, 1) + d.y)
    ELSE Ok(ShiftL(d.y, 1) + d.x)

\* ROUTING_DIRECTIONS_IDX, indexed from 1 here.
ROUTING_DIRECTIONS_IDX ==
    IF COORD_Y_PRIORITY THEN <<X0Y0, X0Y1, X1Y0, X1Y1>>
    ELSE <<X0Y0, X1Y0, X0Y1, X1Y1>>

\* RoutingCoord(*path): the fields L4 .. L0, each ANY unless given; more
\* than five arguments are a TypeError.
RoutingCoord(path) ==
    IF Len(path) > MAX_ROUTING_PATH_LENGTH THEN Raise("TypeError")
    ELSE Ok(path \o [i \in 1..(MAX_ROUTING_PATH_LENGTH - Len(path)) |-> ANY])

RECURSIVE LevelFrom(_, _)
\* The loop of RoutingCoord.level from index i on (i counts from 0).
LevelFrom(rc, i) ==
    IF i >= MAX_ROUTING_PATH_LENGTH THEN 0
    ELSE IF rc[i + 1] = ANY THEN MAX_ROUTING_PATH_LENGTH - i
    ELSE LevelFrom(rc, i + 1)

\* RoutingCoord.level
Level(rc) == LevelFrom(rc, 0)

RECURSIVE SumShifted(_, _, _)
\* sum(self[i].value[axis] << (4 - i) for i in range(5)), from index i on.
SumShifted(rc, axis, i) ==
    IF i >= MAX_ROUTING_PATH_LENGTH THEN 0
    ELSE ShiftL(rc[i + 1][axis], 4 - i) + SumShifted(rc, axis, i + 1)

RECURSIVE SumShiftedLowFirst(_, _, _)
\* The same sum with entry i shifted by i.
SumShiftedLowFirst(rc, axis, i) ==
    IF i >= MAX_ROUTING_PATH_LENGTH THEN 0
    ELSE ShiftL(rc[i + 1][axis], i) + SumShiftedLowFirst(rc, axis, i + 1)

\* RoutingCoord.to_coord with entry i shifted by i.
ToCoordLowFirst(rc) ==
    IF Level(rc) > 0 THEN Raise("AttributeError")
    ELSE IF \E i \in 1..Len(rc) : rc[i] = ANY THEN Raise("ValueError")
    ELSE Coord(SumShiftedLowFirst(rc, "x", 0), SumShiftedLowFirst(rc, "y", 0))

\* RoutingCoord.to_coord: _L0_property, _coord_specify_check, then the
\* two sums.
ToCoord(rc) ==
    IF Level(rc) > 0 THEN Raise("AttributeError")
    ELSE IF \E i \in 1..Len(rc) : rc[i] = ANY THEN Raise("ValueError")
    ELSE Coord(SumShifted(rc, "x", 0), SumShifted(rc, "y", 0))

RECURSIVE LtFrom(_, _, _)
\* The loop of RoutingCoord.__lt__ from index i on.
LtFrom(self, other, i) ==
    IF i >= MAX_ROUTING_PATH_LENGTH THEN FALSE
    ELSE IF self[i + 1] = ANY
    THEN (IF other[i + 1] = ANY THEN LtFrom(self, other, i + 1) ELSE FALSE)
    ELSE IF other[i + 1] = ANY THEN TRUE
    ELSE IF ToIndex(self[i + 1]).val = ToIndex(other[i + 1]).val
    THEN LtFrom(self, other, i + 1)
    ELSE ToIndex(self[i + 1]).val < ToIndex(other[i + 1]).val

\* RoutingCoord.__lt__
RoutingCoordLt(self, other) == LtFrom(self, other, 0)

Reversed(s) == [i \in 1..Len(s) |-> s[Len(s) + 1 - i]]

\* RoutingPath(*path, reverse=...): [ANY] * k is empty for k <= 0.
RoutingPath(path, reverse) ==
    IF reverse
    THEN [i \in 1..(MAX_ROUTING_PATH_LENGTH - Len(path)) |-> ANY] \o Reversed(path)
    ELSE path

RECURSIVE DivmodPath(_, _, _)
\* The loop of n_core2routing_path: k rounds of divmod are left.
DivmodPath(n_core, routing_path, k) ==
    IF k = 0 THEN routing_path
    ELSE DivmodPath(n_core \div N_SUB_ROUTING_NODE,
                    Append(routing_path,
                           ROUTING_DIRECTIONS_IDX[(n_core % N_SUB_ROUTING_NODE) + 1]),
                    k - 1)

\* RoutingPath.n_core2routing_path with the path left in the order L0 .. L4.
NCore2RoutingPathForward(n_core) ==
    RoutingPath(DivmodPath(n_core, <<>>, MAX_ROUTING_PATH_LENGTH), FALSE)

\* RoutingPath.n_core2routing_path
NCore2RoutingPath(n_core) ==
    RoutingPath(DivmodPath(n_core, <<>>, MAX_ROUTING_PATH_LENGTH), TRUE)

----------------------------------------------------------------------------
(* SpecRouting: a caller builds a RoutingCoord and reads its level and its *)
(* Coord; or builds a reversed RoutingPath from a few directions and reads *)
(* the level of its RoutingCoord; or derives the paths of two core counts  *)
(* and compares them.                                                      *)

MaxPathCore == 1023

PathCores == {0, 1, 3, 4, 5, 15, 16, 255, 256, 511, 512, MaxPathCore}

RoutingArgs ==
    [cls : {"RoutingCoord"},
     path : [1..MAX_ROUTING_PATH_LENGTH -> Quadrants \cup {ANY}]]
        \cup [cls : {"RoutingPath"},
              path : SeqsUpTo(Quadrants, MAX_ROUTING_PATH_LENGTH - 1)]
        \cup [cls : {"n_core2routing_path"}, n_core : 0..MaxPathCore,
              m_core : PathCores]

InitRouting ==
    /\ COORD_Y_PRIORITY \in BOOLEAN
    /\ pc = "start"
    /\ coord = None /\ offset = None
    /\ addr = -1 /\ decoded = None
    /\ sum = None /\ diff = None /\ back = None
    /\ last = None /\ nops = 0
    /\ coords = <<>> /\ rid = None /\ ridOut = None /\ cores = None
    /\ args \in RoutingArgs
    /\ frame = None

\* coord = RoutingCoord(*path); coord.level; coord.to_coord()
ReadRoutingCoord ==
    /\ pc = "start"
    /\ args.cls = "RoutingCoord"
    /\ Built([routing_coord |-> RoutingCoord(args.path).val,
              level |-> Level(RoutingCoord(args.path).val),
              to_coord |-> ToCoord(RoutingCoord(args.path).val)])

\* RoutingPath(*path, reverse=True).routing_coord.level
ReadRoutingPath ==
    /\ pc = "start"
    /\ args.cls = "RoutingPath"
    /\ Built([routing_coord |-> RoutingCoord(RoutingPath(args.path, TRUE)).val,
              level |-> Level(RoutingCoord(RoutingPath(args.path, TRUE)).val)])

\* RoutingPath.n_core2routing_path for two core counts, their Coords and
\* the comparison of their RoutingCoords.
CompareRoutingPaths ==
    /\ pc = "start"
    /\ args.cls = "n_core2routing_path"
    /\ Built([first |-> NCore2RoutingPath(args.n_core),
              second |-> NCore2RoutingPath(args.m_core),
              first_coord |-> ToCoord(RoutingCoord(NCore2RoutingPath(args.n_core)).val),
              second_coord |-> ToCoord(RoutingCoord(NCore2RoutingPath(args.m_core)).val),
              lt |-> RoutingCoordLt(RoutingCoord(NCore2RoutingPath(args.n_core)).val,
                                    RoutingCoord(NCore2RoutingPath(args.m_core)).val)])

NextRouting == ReadRoutingCoord \/ ReadRoutingPath \/ CompareRoutingPaths

SpecRouting == InitRouting /\ [][NextRouting]_vars

\* C25: a RoutingCoord has level L0 exactly when no entry is ANY, and
\* to_coord() succeeds exactly then, with x the sum of dx_i * 2^(4-i) and
\* y the sum of dy_i * 2^(4-i) over the entries i = 0..4 counted from L4;
\* with an ANY entry to_coord() fails and there is no Coord.
C25_ToCoord ==
    (pc = "built" /\ args.cls = "RoutingCoord") =>
        LET p == args.path
            full == \A i \in 1..5 : p[i] # ANY
        IN  /\ (frame.level = 0) <=> full
            /\ (frame.to_coord.raised = "none") <=> full
            /\ ~full => DOMAIN frame.to_coord = {"raised"}
            /\ full =>
                   /\ frame.to_coord.val.x =
                          p[1].x * 16 + p[2].x * 8 + p[3].x * 4 + p[4].x * 2 + p[5].x
                   /\ frame.to_coord.val.y =
                          p[1].y * 16 + p[2].y * 8 + p[3].y * 4 + p[4].y * 2 + p[5].y

C25_Witness ==
    /\ pc = "built"
    /\ args.cls = "RoutingCoord"
    /\ args.path = <<X0Y1, X1Y1, X0Y0, X0Y1, X0Y1>>
    /\ frame.level = 0
    /\ frame.to_coord = Ok([x |-> 8, y |-> 27])

\* The number of leading ANY entries of a RoutingCoord.
LeadingAny(rc) == Cardinality({m \in 1..Len(rc) : \A i \in 1..m : rc[i] = ANY})

\* C26: a RoutingCoord whose first m entries (1 <= m <= 5) are ANY and
\* whose other 5 - m entries are quadrant directions, as built by
\* RoutingPath(..., reverse=True) from 5 - m directions, reports the level
\* k with 5 - k = m.
C26_LevelFromLeadingAny ==
    (pc = "built" /\ args.cls = "RoutingPath") =>
        LET m == MAX_ROUTING_PATH_LENGTH - Len(args.path)
        IN  /\ LeadingAny(frame.routing_coord) = m
            /\ \A i \in (m + 1)..MAX_ROUTING_PATH_LENGTH :
                   frame.routing_coord[i] \in Quadrants
            /\ MAX_ROUTING_PATH_LENGTH - frame.level = m

\* The part of C26 about the shape of the RoutingCoord alone: m leading
\* ANY entries followed by the given directions in reverse order.
C26_Shape ==
    (pc = "built" /\ args.cls = "RoutingPath") =>
        LET m == MAX_ROUTING_PATH_LENGTH - Len(args.path)
        IN  /\ LeadingAny(frame.routing_coord) = m
            /\ \A i \in 1..Len(args.path) :
                   frame.routing_coord[MAX_ROUTING_PATH_LENGTH + 1 - i] = args.path[i]

\* The index of a quadrant direction under the priority in force.
IndexOf(d) == IF COORD_Y_PRIORITY THEN 2 * d.x + d.y ELSE 2 * d.y + d.x

\* The j-th base-4 digit of n.
Digit4(n, j) == (n \div (4 ^ j)) % 4

\* C27: for n in 0..1023, n_core2routing_path(n) is a fully specified path
\* of 5 directions, L4 first, whose entry for level Lj has the index equal
\* to the j-th base-4 digit of n; distinct n and m give distinct paths and
\* distinct Coords, and n < m exactly when the RoutingCoord of n is less
\* than the RoutingCoord of m.
C27_CanonicalPath ==
    (/\ pc = "built" /\ args.cls = "n_core2routing_path"
     /\ args.n_core \in 0..1023 /\ args.m_core \in 0..1023) =>
        /\ Len(frame.first) = 5
        /\ \A j \in 0..4 :
               /\ frame.first[5 - j] \in Quadrants
               /\ IndexOf(frame.first[5 - j]) = Digit4(args.n_core, j)
        /\ frame.first_coord.raised = "none"
        /\ frame.second_coord.raised = "none"
        /\ (args.n_core # args.m_core) =>
               /\ frame.first # frame.second
               /\ frame.first_coord.val # frame.second_coord.val
        /\ (args.n_core < args.m_core) <=> frame.lt

C27_Witness ==
    /\ pc = "built"
    /\ args.cls = "n_core2routing_path"
    /\ args.n_core = 283
    /\ args.m_core = 511
    /\ COORD_Y_PRIORITY
    /\ frame.first = <<X0Y1, X0Y0, X0Y1, X1Y0, X1Y1>>
    /\ frame.lt

----------------------------------------------------------------------------
(* Coord + CoordOffset against the flat address.                           *)

\* The flat sum c.address + 32*dx + dy of the operands at hand.
FlatSum == Address(coord) + 32 * offset.delta_x + offset.delta_y

\* C29: under Y-priority c + o succeeds exactly when
\* 0 <= c.address + 32*dx + dy <= 1023, and then the address of c + o is
\* c.address + 32*dx + dy.
C29_FlatAddition ==
    (pc \in {"added", "back"} /\ COORD_Y_PRIORITY) =>
        /\ (sum.raised = "none") <=> (0 <= FlatSum /\ FlatSum <= 1023)
        /\ sum.raised = "none" => Address(sum.val) = FlatSum

C29_Witness ==
    /\ pc = "added"
    /\ COORD_Y_PRIORITY
    /\ coord = [x |-> 3, y |-> 31]
    /\ offset = [delta_x |-> 1, delta_y |-> 1]
    /\ sum = Ok([x |-> 5, y |-> 0])
    /\ Address(sum.val) = 160

----------------------------------------------------------------------------
(* SpecAgree: one spike is encoded twice, by concat_frame_dest followed by *)
(* gen_work_frame1_fast, and by the constructor of OfflineWorkFrame1.      *)

AgreeChips == {[x |-> 1, y |-> 2], [x |-> 31, y |-> 31]}
AgreeCores == {[x |-> 3, y |-> 4], [x |-> 31, y |-> 0]}
AgreeRIds == {[x |-> 0, y |-> 0], [x |-> 3, y |-> 3]}
AgreeAxons == {0, 682, ADDR_AXON_MAX}
AgreeTimeslots == {0, 170, 255}

AgreeArgs ==
    [cls : {"agree"}, chip_coord : AgreeChips, core_coord : AgreeCores,
     rid : AgreeRIds, axon : AgreeAxons, timeslot : AgreeTimeslots,
     data : INT8_MIN..INT8_MAX]

InitAgree ==
    /\ COORD_Y_PRIORITY \in BOOLEAN
    /\ pc = "start"
    /\ coord = None /\ offset = None
    /\ addr = -1 /\ decoded = None
    /\ sum = None /\ diff = None /\ back = None
    /\ last = None /\ nops = 0
    /\ coords = <<>> /\ rid = None /\ ridOut = None /\ cores = None
    /\ args \in AgreeArgs
    /\ frame = None

\* dest = OfflineWorkFrame1.concat_frame_dest(chip, core, rid, [axon], [timeslot])
EncodeDest ==
    /\ pc = "start"
    /\ pc' = "dest"
    /\ frame' = [dest |-> ConcatFrameDest([chip_coord |-> args.chip_coord,
                                           core_coord |-> args.core_coord,
                                           rid |-> args.rid,
                                           axons |-> <<args.axon>>,
                                           timeslots |-> Some(<<args.timeslot>>)])]
    /\ UNCHANGED <<args, COORD_Y_PRIORITY, coord, offset, addrVars, arithVars,
                   inplaceVars, routeVars>>

\* OfflineFrameGen.gen_work_frame1_fast(dest, [data mod 256]) and
\* OfflineWorkFrame1(chip, core, rid, timeslot, axon, data).value
EncodeBothWays ==
    /\ pc = "dest"
    /\ frame.dest.raised = "none"
    /\ pc' = "encoded"
    /\ frame' = [dest |-> frame.dest,
                 fast |-> GenWorkFrame1Fast([frame_dest_info |-> frame.dest.val,
                                             data |-> <<args.data % 256>>]),
                 single |-> LET f == WorkFrame1([chip_coord |-> args.chip_coord,
                                                 core_coord |-> args.core_coord,
                                                 rid |-> args.rid,
                                                 timeslot |-> args.timeslot,
                                                 axon |-> args.axon,
                                                 data |-> [scalar |-> args.data]])
                            IN  IF f.raised # "none" THEN f ELSE Ok(f.val.value)]
    /\ UNCHANGED <<args, COORD_Y_PRIORITY, coord, offset, addrVars, arithVars,
                   inplaceVars, routeVars>>

NextAgree == EncodeDest \/ EncodeBothWays

SpecAgree == InitAgree /\ [][NextAgree]_vars

\* C30: for a chip, a core, a replication id, an axon in 0..1151, a
\* timeslot in 0..255 and data d in -128..127 other than 0,
\* gen_work_frame1_fast(concat_frame_dest(chip, core, rid, [axon],
\* [timeslot]), [d mod 256]) is one word, and it equals
\* OfflineWorkFrame1(chip, core, rid, timeslot, axon, d).value[0].
C30_EncodersAgree ==
    (/\ pc = "encoded"
     /\ args.axon \in 0..1151 /\ args.timeslot \in 0..255
     /\ args.data \in (-128)..127 /\ args.data # 0) =>
        /\ frame.fast.raised = "none"
        /\ frame.single.raised = "none"
        /\ Len(frame.fast.val) = 1
        /\ Len(frame.single.val) = 1
        /\ frame.fast.val[1] = frame.single.val[1]

C30_Witness ==
    /\ pc = "encoded"
    /\ args.rid = [x |-> 3, y |-> 3]
    /\ args.axon = 682 /\ args.timeslot = 170 /\ args.data = -1
    /\ frame.fast.raised = "none"
    /\ frame.single.raised = "none"
    /\ frame.fast.val = frame.single.val
    /\ Field(frame.fast.val[1], 0, 8) = 255
    /\ Field(frame.fast.val[1], 8, 8) = 170
    /\ Field(frame.fast.val[1], 16, 11) = 682

====
